---- MODULE Spec2Model ----
(***************************************************************************)
(* Model of ArkivStorageService (src/lib/golem-storage.ts, first class of  *)
(* the file): the adapter between the application and the remote entity    *)
(* store, with its Local Key Index, its tiered retrieval and its breaker.  *)
(*                                                                         *)
(* Every asynchronous handler is cut at its awaits of the remote client:   *)
(* one action starts the handler up to its first remote call, one action   *)
(* per remote call completes it and runs the continuation up to the next   *)
(* remote call or to the return.                                           *)
(***************************************************************************)
EXTENDS Integers, Sequences, FiniteSets, TLC

\* ------------------------------------------------------------------ bounds
MaxKeys == 2            \* number of physical entity keys the remote can hand out

\* ------------------------------------------------------- program constants
FailureThreshold == 5   \* individualFetchFailures >= 5 trips the breaker
ListingFloor == 50      \* Math.max(limit, 50) / options.limit || 50
Iterations == 100000    \* EncryptionService config.iterations

Keys == 1..MaxKeys

\* JS undefined for a string-valued field (strings are sequences, see below)
Undefined == <<"undefined">>

\* ------------------------------------------------------------------ strings
\* A string is a sequence of one-character strings.
ToLowerChar(c) ==
  CASE c = "A" -> "a"
    [] c = "E" -> "e"
    [] c = "I" -> "i"
    [] c = "M" -> "m"
    [] c = "X" -> "x"
    [] OTHER -> c

toLowerCase(s) == [i \in DOMAIN s |-> ToLowerChar(s[i])]

includes(h, n) == \E i \in 0..(Len(h) - Len(n)) : SubSeq(h, i + 1, i + Len(n)) = n

RECURSIVE join(_)
join(parts) ==
  IF parts = <<>> THEN <<>>
  ELSE IF Len(parts) = 1 THEN parts[1]
  ELSE parts[1] \o <<" ">> \o join(Tail(parts))

\* An element of an array that is undefined joins as the empty string.
Str(x) == IF x = Undefined THEN <<>> ELSE x

\* mutant: nothing is cut off
sliceAll(s, n) == s

\* Array.prototype.slice(0, n)
slice(s, n) == SubSeq(s, 1, IF n < Len(s) THEN n ELSE Len(s))

Range(s) == {s[i] : i \in DOMAIN s}

\* ------------------------------------------------------------------ payloads
\* What the remote store holds under a key: the text of the payload, abstracted
\* to whether it parses as JSON and, if so, the fields of the parsed object.
DefaultType == <<"c">>         \* 'conversation'
DefaultCategory == <<"g">>     \* 'general'

OwnerA == <<"0", "x", "A">>
OwnerB == <<"0", "x", "b">>

Payload(json, id, content, type, category, tags, owner, size) ==
  [json |-> json, id |-> id, content |-> content, type |-> type,
   category |-> category, tags |-> tags, owner |-> owner, size |-> size,
   encrypted |-> "undefined"]

\* a well-formed memory of owner A
MilkA == Payload(TRUE, <<"1">>, <<"M", "i">>, Undefined, Undefined, <<>>, OwnerA, 2)
\* a well-formed memory of owner B
EggsB == Payload(TRUE, <<"2">>, <<"E", "g">>, <<"f">>, <<"w">>, << <<"t">> >>, OwnerB, 4)
\* JSON without an id (an entity of the same owner that is not a memory)
NoId == Payload(TRUE, Undefined, <<"M", "i">>, <<"h">>, Undefined, <<>>, OwnerA, 2)
\* JSON with an id but without accessPolicy
NoPolicy == Payload(TRUE, <<"4">>, <<"M", "i">>, Undefined, Undefined, <<>>, Undefined, 2)
\* text that is not JSON
NotJson == Payload(FALSE, Undefined, Undefined, Undefined, Undefined, <<>>, Undefined, 0)

\* no entity under the key (never created, deleted or expired)
NoEntity == Payload(FALSE, <<"none">>, Undefined, Undefined, Undefined, <<>>, Undefined, 0)

\* ------------------------------------------------------------------ decoding
\* The MemoryEntry built from the parsed payload (the object literal returned by
\* entityToMemory); accessPolicy is represented by its owner.
\* x || fallback takes the fallback for undefined and for the empty string
Falsy(x) == x = Undefined \/ x = <<>>

MemoryEntry(key, data) ==
  [id |-> data.id,
   content |-> data.content,
   type |-> IF Falsy(data.type) THEN DefaultType ELSE data.type,
   category |-> IF Falsy(data.category) THEN DefaultCategory ELSE data.category,
   tags |-> data.tags,
   encrypted |-> data.encrypted = "true",
   accessPolicy |-> data.owner,
   size |-> data.size,
   ipfsHash |-> key]

\* A nullable MemoryEntry is a sequence of length 0 (null) or 1.
\* Decoding of an entity that carries its payload: JSON.parse failure and a
\* missing id both give null.
decodeEntity(key, data) ==
  IF ~data.json THEN <<>>
  ELSE IF Falsy(data.id) THEN <<>>
  ELSE <<MemoryEntry(key, data)>>

\* Decoding in the toText() branch of the recovery fetch: JSON.parse failure
\* gives null, the id is not looked at.
decodeToText(key, data) ==
  IF ~data.json THEN <<>>
  ELSE <<MemoryEntry(key, data)>>

\* ------------------------------------------------------------------ state
VARIABLES
  remote,                   \* the remote entity store: key -> payload or NoEntity
  nextKey,                  \* next physical key the remote store hands out
  storage,                  \* localStorage item 'arkiv-entity-keys'
  storageWritable,          \* window is defined and localStorage.setItem does not throw
  configValid,              \* config.privateKey passes the check of initialize()
  isInitialized,            \* ArkivStorageService.isInitialized
  clients,                  \* walletClient and publicClient are set
  entityKeys,               \* ArkivStorageService.entityKeys, in insertion order
  individualFetchFailures,  \* ArkivStorageService.individualFetchFailures
  skipIndividualFetch,      \* ArkivStorageService.skipIndividualFetch
  task,                     \* the handler in flight, its locals and its result
  callsAfterTrip,           \* recovery getEntity calls issued while the breaker was set
  unknownOutcome,           \* keys of creates the remote accepted while the call failed
  pendingQuery              \* a getAllEntityKeys running beside the handler of task:
                            \* none, or the keys its owner query will return

\* KeyManagementService (src/app/layout.tsx) and EncryptionService
\* (src/lib/chat-service.ts)
VARIABLES
  masterKey,                \* KeyManagementService.masterKey
  sessionKeys,              \* KeyManagementService.sessionKeys: the keys of the Map
  encryptionKeys,           \* EncryptionService.keys: the keys of the Map
  envelope,                 \* the EncryptedData last returned by encrypt, and its call
  call,                     \* the last call of the two services and what it returned
  remembered,               \* an earlier result of generateMemoryKey, kept for comparison
  keyStorage,               \* localStorage item 'encryption-keys': absent, or the saved keys
  decryptedMemories         \* MemoryManagement: decryptedMemories and decryptionStatus by id

\* ChatService (src/lib/chat-service.ts)
VARIABLES
  chatEntityKey,            \* ChatService.chatEntityKey: null or the tracked entity key
  chatStoredKey,            \* localStorage item 'chat-entity-key': absent or a key
  chat,                     \* the calls of ChatService in flight, by caller
  added,                    \* the messages of the addMessage calls that returned
  remoteFaults              \* some remote call made by ChatService failed or came back empty

\* ArkivStorageService.fetchOwnedEntities, page by page
VARIABLES
  query                     \* the call of fetchOwnedEntities in flight, its locals and its result

\* EncryptionService.config
VARIABLES
  configIterations          \* config.iterations of the EncryptionService in use

overlapVars == <<unknownOutcome, pendingQuery>>

chatVars == <<chatEntityKey, chatStoredKey, chat, added, remoteFaults>>

\* UnifiedWalletService (src/lib/unified-wallet.ts) and MetaMaskWalletService
\* (src/lib/metamask-wallet.ts)
VARIABLES
  currentWalletType,        \* UnifiedWalletService.currentWalletType: null or 'metamask'
  account,                  \* MetaMaskWalletService.account: null or the account
  installed,                \* window.ethereum is there
  connecting,               \* the connect() in flight and who awaits it
  returned                  \* the call of UnifiedWalletService that returned last

\* GoogleCalendarClient (src/lib/chat-service.ts)
VARIABLES
  accessToken,              \* GoogleCalendarClient.accessToken: null or the token
  refreshToken,             \* GoogleCalendarClient.refreshToken: null or the token
  calendarTokens,           \* the localStorage item 'google-calendar-tokens'
  request,                  \* the makeRequest in flight
  revoking                  \* revokeAccess awaits the revoke endpoint

pageVars == <<query>>

calendarVars == <<accessToken, refreshToken, calendarTokens, request, revoking>>

walletVars == <<currentWalletType, account, installed, connecting, returned>>

configVars == <<configIterations>>

appVars == <<chatVars, pageVars, configVars, walletVars, calendarVars>>

\* what the actions of one of these parts leave alone
notChat == <<pageVars, configVars, walletVars, calendarVars>>
notPages == <<chatVars, configVars, walletVars, calendarVars>>
notConfig == <<chatVars, pageVars, walletVars, calendarVars>>
notWallet == <<chatVars, pageVars, configVars, calendarVars>>
notCalendar == <<chatVars, pageVars, configVars, walletVars>>

storeVars == <<remote, nextKey, storage, storageWritable, configValid, isInitialized, clients,
               entityKeys, individualFetchFailures, skipIndividualFetch, task, callsAfterTrip,
               unknownOutcome, pendingQuery>>

keyVars == <<masterKey, sessionKeys, encryptionKeys, envelope, call, remembered, keyStorage,
            decryptedMemories>>

vars == <<remote, nextKey, storage, storageWritable, configValid, isInitialized, clients, entityKeys,
          individualFetchFailures, skipIndividualFetch, task, callsAfterTrip,
          unknownOutcome, pendingQuery,
          masterKey, sessionKeys, encryptionKeys, envelope, call, remembered, keyStorage,
          decryptedMemories, appVars>>

service == <<isInitialized, clients, entityKeys>>
breaker == <<individualFetchFailures, skipIndividualFetch, callsAfterTrip>>

NoStorage == [present |-> FALSE, keys |-> <<>>]

IdleTask ==
  [op |-> "none", pc |-> "idle", status |-> "none", path |-> "none",
   searchText |-> <<>>, owner |-> Undefined, limit |-> 0,
   entities |-> <<>>, pending |-> {}, slots |-> <<>>, shapes |-> <<>>,
   keys |-> <<>>, idx |-> 0, memories |-> <<>>, result |-> <<>>,
   key |-> 0, payload |-> NoEntity, flag |-> FALSE,
   enumThrew |-> 0, listed |-> -1, enumListed |-> -1, saved |-> FALSE,
   indexBefore |-> <<>>, storageBefore |-> NoStorage,
   size |-> 0, totalMemories |-> -1, totalSize |-> -1]

\* Fields of task that are not locals of the handler but a record of the call:
\* enumThrew counts the owner queries of the call that threw, listed and
\* enumListed are the numbers of entities returned by the owner query of
\* searchMemories and of getAllEntityKeys (-1: it did not return),
\* saved tells whether the setItem of saveEntityKeysToStorage went through,
\* indexBefore and storageBefore are the Local Key Index when the handler
\* issued its remote call (after ensureInitialized).

Idle == task.pc \in {"idle", "done"}

ExistingKeys == {k \in Keys : remote[k] # NoEntity}

\* sequences without repetition over a set of keys
RECURSIVE Arrangements(_)
Arrangements(S) ==
  IF S = {} THEN {<<>>}
  ELSE UNION {{<<k>> \o t : t \in Arrangements(S \ {k})} : k \in S}

KeySeqs(S) == UNION {Arrangements(T) : T \in SUBSET S}

\* ------------------------------------------------------- Local Key Index
\* mutant: the key is not added
SetAddDropped(seq, k) == seq

SetAdd(seq, k) == IF k \in Range(seq) THEN seq ELSE Append(seq, k)
SetDelete(seq, k) == SelectSeq(seq, LAMBDA x : x # k)

\* saveEntityKeysToStorage: setItem of the array of the set; without window
\* nothing is written and a failing setItem is caught: the item stays as it was.
saveEntityKeysToStorage(keys) ==
  IF storageWritable THEN [present |-> TRUE, keys |-> keys] ELSE storage

\* mutant: initialize() does not read the persisted array
loadEntityKeysNever == entityKeys

\* loadEntityKeysFromStorage: replaces the set when the item is present.
loadEntityKeysFromStorage == IF storage.present THEN storage.keys ELSE entityKeys

\* ensureInitialized: initialize() when not initialized, throwing on an invalid
\* private key; then ensureClients.
ensureInitializedOk == isInitialized \/ configValid

entityKeysInitialized == IF isInitialized THEN entityKeys ELSE loadEntityKeysFromStorage

initialize ==
  /\ isInitialized' = TRUE
  /\ clients' = TRUE

Done(op, status) == [IdleTask EXCEPT !.op = op, !.pc = "done", !.status = status]

\* ------------------------------------------------------------------ key records
\* EncryptionKey: the two halves always hold the same symmetric material;
\* createdAt is left out
EncryptionKey(keyId, material, salt) ==
  [keyId |-> keyId, publicKey |-> material, privateKey |-> material, salt |-> salt]

\* CryptoJS.PBKDF2: the derived key, kept as the term of its three inputs
PBKDF2(password, salt, iterations) ==
  [password |-> password, salt |-> salt, iterations |-> iterations]

\* CryptoJS.AES.encrypt: the ciphertext, kept as the term of its three inputs
AESencrypt(content, derivedKey, iv) == [plain |-> content, key |-> derivedKey, iv |-> iv]

\* EncryptedData returned by encrypt
EncryptedData(encrypted, iv, salt, iterations) ==
  [encryptedContent |-> encrypted, iv |-> iv, salt |-> salt, iterations |-> iterations]

NoEnvelope ==
  [data |-> EncryptedData(AESencrypt(Undefined, PBKDF2(Undefined, <<>>, 0), <<>>), <<>>, <<>>, 0),
   keyId |-> Undefined, content |-> Undefined, withKms |-> FALSE, key |-> <<>>]

\* op, status and error: the call and how it ended; keyId, memoryId, salt,
\* content and withKms: its arguments; key and content: what it returned;
\* master: the master key it ran under; flag: the cache held keys when
\* clearSession was called; cached: the size of the cache after the call
IdleCall ==
  [op |-> "none", status |-> "none", error |-> "none",
   keyId |-> Undefined, memoryId |-> Undefined, salt |-> Undefined, master |-> Undefined,
   content |-> Undefined, key |-> <<>>, withKms |-> FALSE, flag |-> FALSE, cached |-> 0]

\* ------------------------------------------------------------------ wallet calls
\* pc: idle, switching (switchToArkivMendoza is awaited), requesting
\* (eth_requestAccounts is awaited) or balance (eth_getBalance is awaited);
\* unified: connectWallet awaits this connect();
\* address: accounts[0]
IdleConnect == [pc |-> "idle", unified |-> FALSE, address |-> <<>>]

\* op: connect (connectWallet) or disconnect (disconnectWallet); result: what
\* connectWallet returned
NoneReturned == [op |-> "none", result |-> FALSE]

\* ------------------------------------------------------------------ owner query
\* pages: the pages the owner query has on the remote side; fetchAll: the
\* option; page: the page result.entities holds; entities: the local array;
\* requests: the number of fetch() and next() calls made
IdleQuery ==
  [pc |-> "idle", status |-> "none", fetchAll |-> FALSE, pages |-> <<>>, page |-> 0,
   entities |-> <<>>, requests |-> 0]

\* A chat message is represented by its id; the welcome message has the id
\* ---- calendar calls ----

\* pc: where makeRequest is; status: how the last makeRequest ended;
\* refresh: what became of the refreshAccessToken it last made (ok, failed:
\* the token endpoint refused, absent: there was no refresh token)
NoRequest == [pc |-> "idle", status |-> "none", refresh |-> "none"]

\* 'welcome'.  Callers are the places of the application that call ChatService.
Welcome == "w"
Messages == {"a", "b"}
Callers == {1, 2}

\* op: add (addMessage), load (loadChatMessages) or save (saveChatMessages);
\* message: the message addMessage built; existing: the messages loaded or
\* given; key: the key being retrieved; keys and idx: the loop over
\* allEntityKeys; result: what the call returned; seen: the messages whose
\* addMessage had returned when the call started; keyBefore and storedBefore:
\* the two tracked keys when the call started; saved: the messages of the
\* saveChatMessages that returned to this caller just before the call;
\* faulty: a remote call of this call failed or came back without payload
IdleChat ==
  [op |-> "none", pc |-> "idle", status |-> "none", message |-> <<>>, existing |-> <<>>,
   key |-> 0, keys |-> <<>>, idx |-> 0, result |-> <<>>, seen |-> {},
   keyBefore |-> <<>>, storedBefore |-> <<>>, saved |-> <<>>, faulty |-> FALSE]

\* ------------------------------------------------------------------ Init
\* The state after construction.  The remote store and the browser's storage
\* outlive the object: a world lists the payloads already stored under the
\* keys 1, 2, ... and the item a previous session left in localStorage.
World(payloads) == [k \in Keys |-> IF k <= Len(payloads) THEN payloads[k] ELSE NoEntity]

Stored(keys) == [present |-> TRUE, keys |-> keys]

\* extensions: whether the browser has the wallet extension
InitWith(worlds, stores, writable, extensions) ==
  /\ \E w \in worlds :
       /\ remote = World(w)
       /\ nextKey = Len(w) + 1
  /\ storage \in stores
  /\ storageWritable \in writable
  /\ configValid \in BOOLEAN
  /\ isInitialized = FALSE
  /\ clients = FALSE
  /\ entityKeys = <<>>
  /\ individualFetchFailures = 0
  /\ skipIndividualFetch = FALSE
  /\ task = IdleTask
  /\ callsAfterTrip = 0
  /\ unknownOutcome = {}
  /\ pendingQuery = <<>>
  /\ masterKey = Undefined
  /\ sessionKeys = {}
  /\ encryptionKeys = {}
  /\ envelope = NoEnvelope
  /\ call = IdleCall
  /\ remembered = <<>>
  /\ keyStorage = <<>>
  /\ decryptedMemories = {}
  /\ chatEntityKey = <<>>
  /\ chatStoredKey = <<>>
  /\ chat = [c \in Callers |-> IdleChat]
  /\ added = {}
  /\ remoteFaults = FALSE
  /\ query = IdleQuery
  /\ configIterations = Iterations
  /\ currentWalletType = <<>>
  /\ account = <<>>
  /\ installed \in extensions
  /\ connecting = IdleConnect
  /\ returned = NoneReturned
  /\ accessToken = <<>>
  /\ refreshToken = <<>>
  /\ calendarTokens = <<>>
  /\ request = NoRequest
  /\ revoking = FALSE

InitIn(worlds, stores, writable) == InitWith(worlds, stores, writable, {TRUE})

Init == InitIn({<<>>, <<MilkA>>}, {NoStorage, Stored(<<1>>)}, BOOLEAN)

\* mutant: the key is evicted before the remote delete is confirmed
indexAfterDeleteEager(keys, entityKey, accepted) == SetDelete(keys, entityKey)

\* deleteMemory, lines 324-340: the key is evicted only after deleteEntity resolved
indexAfterDelete(keys, entityKey, accepted) ==
  IF accepted THEN SetDelete(keys, entityKey) ELSE keys

\* mutant: the key is indexed before the remote create is confirmed
indexAfterCreateEager(keys, entityKey, accepted) == SetAdd(keys, entityKey)

\* uploadMemory, lines 266-275: the key is indexed only after createEntity resolved
indexAfterCreate(keys, entityKey, accepted) ==
  IF accepted THEN SetAdd(keys, entityKey) ELSE keys

\* mutant: the catch block gives up without the cached keys
cachedKeysNone(keys) == <<>>

\* getAllEntityKeys, lines 504-510: the keys returned when the owner query threw
cachedKeys(keys) == IF Len(keys) > 0 THEN keys ELSE <<>>

\* ------------------------------------------------------------------ uploadMemory
\* A MemoryEntry the application hands to uploadMemory; ipfsHash 0: no remote
\* key yet.
Entry(id, content, type, category, tags, encrypted, owner, size) ==
  [id |-> id, content |-> content, type |-> type, category |-> category,
   tags |-> tags, encrypted |-> encrypted, accessPolicy |-> owner, size |-> size,
   ipfsHash |-> 0]

\* an encrypted memory of owner B with a tag
Eggs == Entry(<<"2">>, <<"E", "g">>, <<"f">>, <<"w">>, << <<"t">> >>, TRUE, OwnerB, 4)
\* a plain memory of owner A whose category is the empty string
Note == Entry(<<"3">>, <<"M", "i">>, DefaultType, <<>>, <<>>, FALSE, OwnerA, 2)

UploadSet == {Eggs, Note}

\* line 265: JSON.stringify of the spread memory; the remote key the record may
\* carry is serialized too but never read back
jsonToPayload(memory) ==
  [Payload(TRUE, memory.id, memory.content, memory.type, memory.category,
           memory.tags, memory.accessPolicy, memory.size)
     EXCEPT !.encrypted = IF memory.encrypted THEN "true" ELSE "false"]

uploadMemoryStart(memory) ==
  /\ UNCHANGED keyVars
  /\ UNCHANGED appVars
  /\ UNCHANGED overlapVars
  /\ Idle
  /\ nextKey <= MaxKeys
  /\ IF ensureInitializedOk
     THEN /\ initialize
          /\ entityKeys' = entityKeysInitialized
          /\ task' = [IdleTask EXCEPT !.op = "upload", !.pc = "creating",
                        !.payload = jsonToPayload(memory),
                        !.indexBefore = entityKeysInitialized, !.storageBefore = storage]
     ELSE /\ task' = Done("upload", "throw")
          /\ UNCHANGED service
  /\ UNCHANGED <<remote, nextKey, storage, storageWritable, configValid, breaker>>

\* walletClient.createEntity resolved or rejected
createEntityDone(accepted) ==
  /\ UNCHANGED keyVars
  /\ UNCHANGED appVars
  /\ UNCHANGED overlapVars
  /\ task.pc = "creating"
  /\ entityKeys' = indexAfterCreate(entityKeys, nextKey, accepted)
  /\ IF accepted
     THEN /\ remote' = [remote EXCEPT ![nextKey] = task.payload]
          /\ nextKey' = nextKey + 1
          /\ storage' = saveEntityKeysToStorage(entityKeys')
          /\ task' = [task EXCEPT !.pc = "done", !.status = "ok", !.key = nextKey,
                                  !.saved = storageWritable]
     ELSE /\ task' = [task EXCEPT !.pc = "done", !.status = "throw"]
          /\ UNCHANGED <<remote, nextKey, storage>>
  /\ UNCHANGED <<storageWritable, configValid, isInitialized, clients, breaker>>

\* ------------------------------------------------------------------ deleteMemory
deleteMemoryStart(entityKey) ==
  /\ UNCHANGED keyVars
  /\ UNCHANGED appVars
  /\ UNCHANGED overlapVars
  /\ Idle
  /\ IF ensureInitializedOk
     THEN /\ initialize
          /\ entityKeys' = entityKeysInitialized
          /\ task' = [IdleTask EXCEPT !.op = "delete", !.pc = "deleting", !.key = entityKey,
                        !.indexBefore = entityKeysInitialized, !.storageBefore = storage]
     ELSE /\ task' = Done("delete", "throw")
          /\ UNCHANGED service
  /\ UNCHANGED <<remote, nextKey, storage, storageWritable, configValid, breaker>>

\* walletClient.deleteEntity resolved or rejected
deleteEntityDone(accepted) ==
  /\ UNCHANGED keyVars
  /\ UNCHANGED appVars
  /\ UNCHANGED overlapVars
  /\ task.pc = "deleting"
  /\ accepted => remote[task.key] # NoEntity
  /\ entityKeys' = indexAfterDelete(entityKeys, task.key, accepted)
  /\ IF accepted
     THEN /\ remote' = [remote EXCEPT ![task.key] = NoEntity]
          /\ storage' = saveEntityKeysToStorage(entityKeys')
          /\ task' = [task EXCEPT !.pc = "done", !.status = "ok", !.flag = TRUE,
                                  !.saved = storageWritable]
     ELSE /\ task' = [task EXCEPT !.pc = "done", !.status = "ok", !.flag = FALSE]
          /\ UNCHANGED <<remote, storage>>
  /\ UNCHANGED <<nextKey, storageWritable, configValid, isInitialized, clients, breaker>>

\* ------------------------------------------------------------------ cleanup
cleanup ==
  /\ UNCHANGED keyVars
  /\ UNCHANGED appVars
  /\ UNCHANGED overlapVars
  /\ Idle
  /\ isInitialized' = FALSE
  /\ clients' = FALSE
  /\ task' = Done("cleanup", "ok")
  /\ UNCHANGED <<remote, nextKey, storage, storageWritable, configValid, entityKeys, breaker>>


\* ------------------------------------------------------------------ environment
\* localStorage starts or stops accepting writes (quota reached or freed)
storageChange ==
  /\ UNCHANGED keyVars
  /\ UNCHANGED appVars
  /\ UNCHANGED overlapVars
  /\ Idle
  /\ storageWritable' = ~storageWritable
  /\ UNCHANGED <<remote, nextKey, storage, configValid, service, breaker, task>>

\* ------------------------------------------------------------------ remote client
\* What getEntity(key) can answer: it throws ("throw"), or returns an entity
\* with its value ("value"), or one without value whose toText() gives the
\* payload text ("text"), or one without value and without text ("empty").
FetchShapes(key) ==
  IF remote[key] = NoEntity THEN {"throw"} ELSE {"value", "text", "empty", "throw"}

\* What the owner query can return: the entities of any arrangement of a
\* subset of the existing keys (at most limit of them), each with or without
\* its value inlined.
Listings(limit, includePayload) ==
  UNION {{[i \in 1..Len(ks) |-> [key |-> ks[i], hasValue |-> hv[i]]] :
            hv \in [1..Len(ks) -> IF includePayload THEN BOOLEAN ELSE {FALSE}]} :
         ks \in {a \in KeySeqs(ExistingKeys) : Len(a) <= limit}}

Max(a, b) == IF a >= b THEN a ELSE b

\* ------------------------------------------------------------------ entityToMemory
\* mutant: the breaker is never consulted
breakerOpenNever == FALSE

\* line 117: the breaker check made before a recovery fetch is issued
breakerOpen == skipIndividualFetch

\* mutant: the toText() branch forgets to reset the counter
failuresAfterNoTextReset(n, shape) ==
  IF shape = "value" THEN 0 ELSE n + 1

\* lines 132-185: the counter after the recovery fetch answered with shape
failuresAfter(n, shape) ==
  IF shape \in {"value", "text"} THEN 0 ELSE n + 1

\* lines 136-142 and 179-182: the breaker after the recovery fetch answered
skipAfter(n, skip, shape) ==
  skip \/ (shape # "value" /\ n + 1 >= FailureThreshold)

\* the nullable MemoryEntry entityToMemory returns after the recovery fetch
recovered(key, shape) ==
  CASE shape = "value" -> decodeEntity(key, remote[key])
    [] shape = "text" -> decodeToText(key, remote[key])
    [] OTHER -> <<>>

\* ------------------------------------------------------------------ filters
RECURSIVE Flatten(_)
Flatten(ss) == IF ss = <<>> THEN <<>> ELSE Head(ss) \o Flatten(Tail(ss))

haystack(memory) ==
  toLowerCase(join(<<Str(memory.content), memory.category, memory.type>> \o memory.tags))

textFilter(memories, searchText) ==
  SelectSeq(memories, LAMBDA m : searchText = <<>> \/ includes(haystack(m), toLowerCase(searchText)))

\* memory.accessPolicy.owner on a record without accessPolicy is a TypeError
ownerFilterThrows(memories) == \E i \in DOMAIN memories : memories[i].accessPolicy = Undefined

ownerFilter(memories, owner) ==
  SelectSeq(memories, LAMBDA m : toLowerCase(m.accessPolicy) = toLowerCase(owner))

\* ------------------------------------------------------------------ continuations
\* searchMemoriesFallback -> getAllMemoriesDirectly -> getAllEntityKeys: the
\* handler awaits the owner enumeration.
startFallback(t, mode) == [t EXCEPT !.pc = "enumerating", !.path = mode]

\* the locals of the primary tier are dead once its empty result is known
dropBatch(t) == [t EXCEPT !.entities = <<>>, !.slots = <<>>, !.shapes = <<>>]

\* lines 398-432: the continuation of searchMemories once Promise.all resolved
afterJoin(t, skip) ==
  LET memories == Flatten(t.slots)
      filtered == textFilter(memories, t.searchText)
      result == slice(filtered, t.limit)
  IN IF t.owner # Undefined
     THEN IF ownerFilterThrows(filtered)
          THEN startFallback(t, "error")
          ELSE [t EXCEPT !.pc = "done", !.status = "ok",
                         !.result = slice(ownerFilter(filtered, t.owner), t.limit)]
     ELSE IF Len(result) = 0 /\ ~skip
          THEN startFallback(dropBatch(t), "empty")
          ELSE [t EXCEPT !.pc = "done", !.status = "ok", !.result = result]

\* mutant: searchMemories rethrows when the fallback found nothing after an error
loopFinishedRethrow(t) ==
  IF t.op = "search" /\ t.path = "error" /\ textFilter(t.memories, t.searchText) = <<>>
  THEN [t EXCEPT !.pc = "done", !.status = "throw"]
  ELSE [t EXCEPT !.pc = "done", !.status = "ok",
                 !.result = IF t.op = "search"
                            THEN slice(textFilter(t.memories, t.searchText), t.limit)
                            ELSE t.memories]

\* the end of the loop of getAllMemoriesDirectly and what its callers do next
loopFinished(t) ==
  CASE t.op = "search" ->
         [t EXCEPT !.pc = "done", !.status = "ok",
                   !.result = slice(textFilter(t.memories, t.searchText), t.limit)]
    [] OTHER -> [t EXCEPT !.pc = "done", !.status = "ok", !.result = t.memories]

\* record of a point fetch: what the remote answered to retrieveMemory
noteShape(t, shape) ==
  IF t.op = "retrieve" THEN [t EXCEPT !.shapes = Append(t.shapes, shape)] ELSE t

\* one iteration of the loop ended with the nullable memory mem
advance(t, mem) ==
  LET t1 == [t EXCEPT !.memories = t.memories \o mem, !.idx = t.idx + 1]
  IN IF t1.idx > Len(t1.keys) THEN loopFinished(t1) ELSE [t1 EXCEPT !.pc = "fetching"]

\* the loop over the enumerated keys starts
startLoop(t) ==
  LET t1 == [t EXCEPT !.idx = 1]
  IN IF t1.keys = <<>> THEN loopFinished(t1) ELSE [t1 EXCEPT !.pc = "fetching"]

\* ------------------------------------------------------------------ searchMemories
\* the calls explored: <<searchText, owner, limit>>
SearchArgs == {<< <<>>, Undefined, 50 >>,
               << <<>>, <<"0", "X", "a">>, 50 >>,
               << <<"M", "I">>, Undefined, 1 >>}

searchMemoriesStart(searchText, owner, limit) ==
  /\ UNCHANGED keyVars
  /\ UNCHANGED appVars
  /\ UNCHANGED overlapVars
  /\ Idle
  /\ IF ensureInitializedOk
     THEN /\ initialize
          /\ entityKeys' = entityKeysInitialized
          /\ task' = [IdleTask EXCEPT !.op = "search", !.pc = "listing", !.path = "primary",
                        !.searchText = searchText, !.owner = owner, !.limit = limit,
                        !.indexBefore = entityKeysInitialized, !.storageBefore = storage]
     ELSE /\ task' = Done("search", "throw")
          /\ UNCHANGED service
  /\ UNCHANGED <<remote, nextKey, storage, storageWritable, configValid, breaker>>

\* line 388 rejected: the catch block calls searchMemoriesFallback
searchListingFailed ==
  /\ UNCHANGED keyVars
  /\ UNCHANGED appVars
  /\ UNCHANGED overlapVars
  /\ task.pc = "listing"
  /\ task' = [startFallback(task, "error") EXCEPT !.enumThrew = 1]
  /\ UNCHANGED <<remote, nextKey, storage, storageWritable, configValid, service, breaker>>

\* line 388 resolved: entities.map starts entityToMemory for every entity, each
\* running up to its recovery getEntity
searchListed(entities) ==
  /\ UNCHANGED keyVars
  /\ UNCHANGED appVars
  /\ UNCHANGED overlapVars
  /\ task.pc = "listing"
  /\ LET issue == {i \in DOMAIN entities : ~entities[i].hasValue /\ ~breakerOpen}
         t1 == [task EXCEPT
                  !.entities = entities,
                  !.listed = Len(entities),
                  !.pending = issue,
                  !.slots = [i \in DOMAIN entities |->
                               IF entities[i].hasValue
                               THEN decodeEntity(entities[i].key, remote[entities[i].key])
                               ELSE <<>>],
                  !.shapes = [i \in DOMAIN entities |->
                                IF entities[i].hasValue THEN "inline"
                                ELSE IF i \in issue THEN "pending" ELSE "skipped"],
                  !.pc = "joining"]
     IN /\ task' = IF issue = {} THEN afterJoin(t1, skipIndividualFetch) ELSE t1
        /\ callsAfterTrip' = callsAfterTrip + (IF skipIndividualFetch THEN Cardinality(issue) ELSE 0)
  /\ UNCHANGED <<remote, nextKey, storage, storageWritable, configValid, service,
                 individualFetchFailures, skipIndividualFetch>>

\* the recovery getEntity of entity i of the batch answered
recoveryDone(i, shape) ==
  /\ UNCHANGED keyVars
  /\ UNCHANGED appVars
  /\ UNCHANGED overlapVars
  /\ task.pc = "joining"
  /\ i \in task.pending
  /\ shape \in FetchShapes(task.entities[i].key)
  /\ individualFetchFailures' = failuresAfter(individualFetchFailures, shape)
  /\ skipIndividualFetch' = skipAfter(individualFetchFailures, skipIndividualFetch, shape)
  /\ LET t1 == [task EXCEPT !.pending = task.pending \ {i},
                            !.slots[i] = recovered(task.entities[i].key, shape),
                            !.shapes[i] = shape]
     IN task' = IF t1.pending = {} THEN afterJoin(t1, skipIndividualFetch') ELSE t1
  /\ UNCHANGED <<remote, nextKey, storage, storageWritable, configValid, service, callsAfterTrip>>

\* ------------------------------------------------------------------ getAllEntityKeys
\* line 494 rejected: the cached keys are used
enumerationFailed ==
  /\ UNCHANGED keyVars
  /\ UNCHANGED appVars
  /\ UNCHANGED overlapVars
  /\ task.pc = "enumerating"
  /\ LET t1 == [task EXCEPT !.keys = cachedKeys(entityKeys), !.enumThrew = task.enumThrew + 1,
                            !.enumListed = -1,
                            !.indexBefore = entityKeys, !.storageBefore = storage]
     IN task' = IF task.op = "getKeys"
                THEN [t1 EXCEPT !.pc = "done", !.status = "ok"]
                ELSE startLoop(t1)
  /\ UNCHANGED <<remote, nextKey, storage, storageWritable, configValid, service, breaker>>

\* mutant: the enumerated keys are returned but the set is kept
indexAfterEnumerationKept(keys, listed) == keys

\* line 496: this.entityKeys = new Set(keys)
indexAfterEnumeration(keys, listed) == listed

\* line 494 resolved: the set is replaced by the enumerated keys and saved
enumerated(entities) ==
  /\ UNCHANGED keyVars
  /\ UNCHANGED appVars
  /\ UNCHANGED overlapVars
  /\ task.pc = "enumerating"
  /\ LET keys == [i \in DOMAIN entities |-> entities[i].key]
         t1 == [task EXCEPT !.keys = keys, !.enumListed = Len(entities), !.saved = storageWritable,
                            !.indexBefore = entityKeys, !.storageBefore = storage]
     IN /\ entityKeys' = indexAfterEnumeration(entityKeys, keys)
        /\ storage' = saveEntityKeysToStorage(entityKeys')
        /\ task' = IF task.op = "getKeys"
                   THEN [t1 EXCEPT !.pc = "done", !.status = "ok"]
                   ELSE startLoop(t1)
  /\ UNCHANGED <<remote, nextKey, storageWritable, configValid, isInitialized, clients, breaker>>

getAllEntityKeysStart ==
  /\ UNCHANGED keyVars
  /\ UNCHANGED appVars
  /\ UNCHANGED overlapVars
  /\ Idle
  /\ IF ensureInitializedOk
     THEN /\ initialize
          /\ entityKeys' = entityKeysInitialized
          /\ task' = [IdleTask EXCEPT !.op = "getKeys", !.pc = "enumerating"]
     ELSE \* initialize() throws inside the try: the cached keys are returned
          /\ task' = [Done("getKeys", "ok") EXCEPT !.keys = entityKeys]
          /\ UNCHANGED service
  /\ UNCHANGED <<remote, nextKey, storage, storageWritable, configValid, breaker>>

\* ------------------------------------------------------------------ getAllMemoriesDirectly
getAllMemoriesDirectlyStart ==
  /\ UNCHANGED keyVars
  /\ UNCHANGED appVars
  /\ UNCHANGED overlapVars
  /\ Idle
  /\ IF ensureInitializedOk
     THEN /\ initialize
          /\ entityKeys' = entityKeysInitialized
          /\ task' = [IdleTask EXCEPT !.op = "getAll", !.pc = "enumerating"]
     ELSE \* no key is cached before the first initialize(): the loop is empty
          /\ task' = Done("getAll", "ok")
          /\ UNCHANGED service
  /\ UNCHANGED <<remote, nextKey, storage, storageWritable, configValid, breaker>>

\* ------------------------------------------------------------------ retrieveMemory
retrieveMemoryStart(entityKey) ==
  /\ UNCHANGED keyVars
  /\ UNCHANGED appVars
  /\ UNCHANGED overlapVars
  /\ Idle
  /\ IF ensureInitializedOk
     THEN /\ initialize
          /\ entityKeys' = entityKeysInitialized
          /\ task' = [IdleTask EXCEPT !.op = "retrieve", !.pc = "fetching",
                        !.keys = <<entityKey>>, !.idx = 1, !.key = entityKey]
     ELSE /\ task' = Done("retrieve", "throw")
          /\ UNCHANGED service
  /\ UNCHANGED <<remote, nextKey, storage, storageWritable, configValid, breaker>>

\* line 290: getEntity of the current key answered; entityToMemory runs up to
\* its recovery getEntity
pointFetched(shape) ==
  /\ UNCHANGED keyVars
  /\ UNCHANGED appVars
  /\ UNCHANGED overlapVars
  /\ task.pc = "fetching"
  /\ shape \in FetchShapes(task.keys[task.idx])
  /\ LET key == task.keys[task.idx]
         t1 == noteShape(task, shape)
     IN CASE shape = "throw" ->
               /\ task' = advance(t1, <<>>)
               /\ UNCHANGED callsAfterTrip
          [] shape = "value" ->
               /\ task' = advance(t1, decodeEntity(key, remote[key]))
               /\ UNCHANGED callsAfterTrip
          [] OTHER ->
               IF breakerOpen
               THEN /\ task' = advance(t1, <<>>)
                    /\ UNCHANGED callsAfterTrip
               ELSE /\ task' = [t1 EXCEPT !.pc = "recovering"]
                    /\ callsAfterTrip' = callsAfterTrip + (IF skipIndividualFetch THEN 1 ELSE 0)
  /\ UNCHANGED <<remote, nextKey, storage, storageWritable, configValid, service,
                 individualFetchFailures, skipIndividualFetch>>

\* line 133: the recovery getEntity of the current key answered
recoveryFetched(shape) ==
  /\ UNCHANGED keyVars
  /\ UNCHANGED appVars
  /\ UNCHANGED overlapVars
  /\ task.pc = "recovering"
  /\ shape \in FetchShapes(task.keys[task.idx])
  /\ individualFetchFailures' = failuresAfter(individualFetchFailures, shape)
  /\ skipIndividualFetch' = skipAfter(individualFetchFailures, skipIndividualFetch, shape)
  /\ task' = advance(noteShape(task, shape), recovered(task.keys[task.idx], shape))
  /\ UNCHANGED <<remote, nextKey, storage, storageWritable, configValid, service, callsAfterTrip>>

\* ------------------------------------------------------------------ unknown outcome
\* walletClient.createEntity rejected (a timeout) although the remote store
\* accepted the transaction: line 266 throws, lines 273-275 are not reached
createEntityLost ==
  /\ UNCHANGED keyVars
  /\ UNCHANGED appVars
  /\ task.pc = "creating"
  /\ remote' = [remote EXCEPT ![nextKey] = task.payload]
  /\ nextKey' = nextKey + 1
  /\ unknownOutcome' = unknownOutcome \cup {nextKey}
  /\ entityKeys' = indexAfterCreate(entityKeys, nextKey, FALSE)
  /\ task' = [task EXCEPT !.pc = "done", !.status = "throw"]
  /\ UNCHANGED <<storage, storageWritable, configValid, isInitialized, clients, breaker,
                 pendingQuery>>

\* ------------------------------------------------------------------ updateMemory
\* mutant: updateMemory indexes the key it wrote to
indexAfterUpdateAdded(keys, entityKey) == SetAdd(keys, entityKey)

\* lines 298-318: no statement of updateMemory touches this.entityKeys
indexAfterUpdate(keys, entityKey) == keys

updateMemoryStart(entityKey, updatedMemory) ==
  /\ UNCHANGED keyVars
  /\ UNCHANGED appVars
  /\ UNCHANGED overlapVars
  /\ Idle
  /\ IF ensureInitializedOk
     THEN /\ initialize
          /\ entityKeys' = entityKeysInitialized
          /\ task' = [IdleTask EXCEPT !.op = "update", !.pc = "updating", !.key = entityKey,
                        !.payload = jsonToPayload(updatedMemory),
                        !.indexBefore = entityKeysInitialized, !.storageBefore = storage]
     ELSE /\ task' = Done("update", "throw")
          /\ UNCHANGED service
  /\ UNCHANGED <<remote, nextKey, storage, storageWritable, configValid, breaker>>

\* walletClient.updateEntity resolved or rejected
updateEntityDone(accepted) ==
  /\ UNCHANGED keyVars
  /\ UNCHANGED appVars
  /\ UNCHANGED overlapVars
  /\ task.pc = "updating"
  /\ accepted => remote[task.key] # NoEntity
  /\ entityKeys' = indexAfterUpdate(entityKeys, task.key)
  /\ IF accepted
     THEN /\ remote' = [remote EXCEPT ![task.key] = task.payload]
          /\ task' = [task EXCEPT !.pc = "done", !.status = "ok"]
     ELSE /\ task' = [task EXCEPT !.pc = "done", !.status = "throw"]
          /\ UNCHANGED remote
  /\ UNCHANGED <<nextKey, storage, storageWritable, configValid, isInitialized, clients, breaker>>

\* ------------------------------------------------------------------ overlapping calls
\* the keys of the owner's entities, as the owner query lists them when it
\* is answered in full
OwnedKeys == CHOOSE ks \in Arrangements(ExistingKeys) :
               \A i, j \in DOMAIN ks : i < j => ks[i] < ks[j]

\* getAllEntityKeys called while the handler of task is at an await: the
\* remote store answers the owner query from its state at that moment
overlappingEnumerationStart ==
  /\ UNCHANGED keyVars
  /\ UNCHANGED appVars
  /\ pendingQuery = <<>>
  /\ IF ensureInitializedOk
     THEN /\ initialize
          /\ entityKeys' = entityKeysInitialized
          /\ pendingQuery' = <<OwnedKeys>>
     ELSE UNCHANGED <<service, pendingQuery>>
  /\ UNCHANGED <<remote, nextKey, storage, storageWritable, configValid, breaker, task,
                 unknownOutcome>>

\* line 494 of the overlapping call resolved: lines 495-497
overlappingEnumerated ==
  /\ UNCHANGED keyVars
  /\ UNCHANGED appVars
  /\ pendingQuery # <<>>
  /\ entityKeys' = indexAfterEnumeration(entityKeys, pendingQuery[1])
  /\ storage' = saveEntityKeysToStorage(entityKeys')
  /\ pendingQuery' = <<>>
  /\ UNCHANGED <<remote, nextKey, storageWritable, configValid, isInitialized, clients, breaker,
                 task, unknownOutcome>>

\* line 494 of the overlapping call rejected: the cached keys are returned
overlappingEnumerationFailed ==
  /\ UNCHANGED keyVars
  /\ UNCHANGED appVars
  /\ pendingQuery # <<>>
  /\ pendingQuery' = <<>>
  /\ UNCHANGED <<remote, nextKey, storage, storageWritable, configValid, service, breaker,
                 task, unknownOutcome>>

\* ------------------------------------------------------------------ getStorageStats
\* line 542: keys.slice(0, 20)
SampleLimit == 20

\* the numbers of keys the owner query of getStorageStats returns; the
\* entities behind them are not held in remote: what getEntity answers for
\* each is drawn when it is fetched
StatCounts == {0, 2, 21}

\* metadata.size of a fetched memory (0: none)
MemorySizes == {0, 1, 2}

\* mutant: every enumerated key is fetched
sampleKeysAll(keys) == keys

\* line 542
sampleKeys(keys) == slice(keys, SampleLimit)

\* Math.round of the quotient of two non-negative integers
round(a, b) == (2 * a + b) \div (2 * b)

\* line 552
averageSize(size, sampled) == IF sampled # 0 THEN round(size, sampled) ELSE 0

\* lines 552-560
statsFinished(t) ==
  [t EXCEPT !.pc = "done", !.status = "ok",
            !.totalMemories = Len(t.keys),
            !.totalSize = averageSize(t.size, Len(sampleKeys(t.keys))) * Len(t.keys)]

\* line 545: the loop over the sample starts
statsLoop(t) ==
  LET t1 == [t EXCEPT !.idx = 1, !.size = 0]
  IN IF sampleKeys(t1.keys) = <<>> THEN statsFinished(t1) ELSE [t1 EXCEPT !.pc = "statsFetching"]

\* lines 546-549: retrieveMemory gave the nullable memory, here its size
statsAdvance(t, mem) ==
  LET t1 == [t EXCEPT !.size = t.size + (IF mem # <<>> /\ mem[1] # 0 THEN mem[1] ELSE 0),
                      !.idx = t.idx + 1]
  IN IF t1.idx > Len(sampleKeys(t1.keys)) THEN statsFinished(t1)
     ELSE [t1 EXCEPT !.pc = "statsFetching"]

getStorageStatsStart ==
  /\ UNCHANGED keyVars
  /\ UNCHANGED appVars
  /\ UNCHANGED overlapVars
  /\ Idle
  /\ IF ensureInitializedOk
     THEN /\ initialize
          /\ entityKeys' = entityKeysInitialized
          /\ task' = [IdleTask EXCEPT !.op = "stats", !.pc = "statsEnumerating"]
     ELSE \* getAllEntityKeys returns the cached keys; retrieveMemory of the
          \* first of them rejects in ensureInitialized
          /\ task' = IF entityKeys = <<>>
                     THEN statsLoop([IdleTask EXCEPT !.op = "stats"])
                     ELSE Done("stats", "throw")
          /\ UNCHANGED service
  /\ UNCHANGED <<remote, nextKey, storage, storageWritable, configValid, breaker>>

\* line 541: the owner query of getAllEntityKeys returned n keys
statsEnumerated(n) ==
  /\ UNCHANGED keyVars
  /\ UNCHANGED appVars
  /\ UNCHANGED overlapVars
  /\ task.pc = "statsEnumerating"
  /\ LET keys == [i \in 1..n |-> i]
     IN /\ entityKeys' = indexAfterEnumeration(entityKeys, keys)
        /\ storage' = saveEntityKeysToStorage(entityKeys')
        /\ task' = statsLoop([task EXCEPT !.keys = keys, !.enumListed = n,
                                          !.saved = storageWritable,
                                          !.indexBefore = entityKeys, !.storageBefore = storage])
  /\ UNCHANGED <<remote, nextKey, storageWritable, configValid, isInitialized, clients, breaker>>

\* line 541: the owner query threw, getAllEntityKeys returned the cached keys
statsEnumerationFailed ==
  /\ UNCHANGED keyVars
  /\ UNCHANGED appVars
  /\ UNCHANGED overlapVars
  /\ task.pc = "statsEnumerating"
  /\ task' = statsLoop([task EXCEPT !.keys = cachedKeys(entityKeys), !.enumThrew = 1,
                                    !.indexBefore = entityKeys, !.storageBefore = storage])
  /\ UNCHANGED <<remote, nextKey, storage, storageWritable, configValid, service, breaker>>

\* line 546: getEntity of the current key answered with shape; mem is the
\* memory decoded from a payload that came with it
statsFetched(shape, mem) ==
  /\ UNCHANGED keyVars
  /\ UNCHANGED appVars
  /\ UNCHANGED overlapVars
  /\ task.pc = "statsFetching"
  /\ shape # "value" => mem = <<>>
  /\ IF shape \in {"throw", "value"} \/ breakerOpen
     THEN /\ task' = statsAdvance(task, mem)
          /\ UNCHANGED callsAfterTrip
     ELSE /\ task' = [task EXCEPT !.pc = "statsRecovering"]
          /\ callsAfterTrip' = callsAfterTrip + (IF skipIndividualFetch THEN 1 ELSE 0)
  /\ UNCHANGED <<remote, nextKey, storage, storageWritable, configValid, service,
                 individualFetchFailures, skipIndividualFetch>>

\* line 133: the recovery getEntity of the current key answered with shape
statsRecovered(shape, mem) ==
  /\ UNCHANGED keyVars
  /\ UNCHANGED appVars
  /\ UNCHANGED overlapVars
  /\ task.pc = "statsRecovering"
  /\ shape \notin {"value", "text"} => mem = <<>>
  /\ individualFetchFailures' = failuresAfter(individualFetchFailures, shape)
  /\ skipIndividualFetch' = skipAfter(individualFetchFailures, skipIndividualFetch, shape)
  /\ task' = statsAdvance(task, mem)
  /\ UNCHANGED <<remote, nextKey, storage, storageWritable, configValid, service, callsAfterTrip>>

\* ------------------------------------------------------------------ random values
\* the values a random byte takes
RandomBytes == {1, 2}

\* byte.toString(16) of a byte below 16, and its inverse
HexDigit(n) ==
  CASE n = 0 -> "0" [] n = 1 -> "1" [] n = 2 -> "2" [] n = 3 -> "3" [] n = 4 -> "4" [] OTHER -> "f"

HexValue(c) ==
  CASE c = "0" -> 0 [] c = "1" -> 1 [] c = "2" -> 2 [] c = "3" -> 3 [] c = "4" -> 4 [] OTHER -> 15

\* Array.from(array, byte => byte.toString(16).padStart(2, '0')).join('') and
\* WordArray.toString(CryptoJS.enc.Hex)
toHex(bytes) == Flatten([i \in DOMAIN bytes |-> <<"0", HexDigit(bytes[i])>>])

\* CryptoJS.enc.Hex.parse
parseHex(s) ==
  [i \in 1..(Len(s) \div 2) |-> 16 * HexValue(s[2 * i - 1]) + HexValue(s[2 * i])]

\* the random values are one byte long
generateRandomKey(b) == toHex(<<b>>)
generateRandomSalt(b) == toHex(<<b>>)
generateKeyId(b) == <<"k", "e", "y", "_">> \o toHex(<<b>>)

\* ------------------------------------------------------------------ KeyManagementService
Passwords == {<<"p">>, <<>>}
MemoryIds == {<<"a">>, <<"a", "_", "b">>}

\* line 110: `memory_${memoryId}`
memoryKeyId(memoryId) == <<"m", "e", "m", "o", "r", "y", "_">> \o memoryId

\* Map.set and Map.get on a Map held as the set of its values, keyed by keyId
MapSet(m, key) == {e \in m : e.keyId # key.keyId} \cup {key}

MapGet(m, keyId) ==
  LET hit == {e \in m : e.keyId = keyId}
  IN IF hit = {} THEN <<>> ELSE <<CHOOSE e \in hit : TRUE>>

getKey(keyId) == MapGet(sessionKeys, keyId)

getAllKeys == sessionKeys

\* isInitialized(): !!this.masterKey
keyManagementInitialized == ~Falsy(masterKey)

\* mutant: the derivation runs without a master key
masterKeyMissingNever == FALSE

\* line 106: !this.masterKey
masterKeyMissing == Falsy(masterKey)

\* mutant: a fresh salt is drawn even when the caller gave one
memorySaltFresh(salt, random) == random

\* line 111: salt || this.generateRandomSalt()
memorySalt(salt, random) == IF Falsy(salt) THEN random ELSE salt

\* line 115: `${this.masterKey}_${memoryId}_${memorySalt}`
keyMaterial(master, memoryId, salt) == master \o <<"_">> \o memoryId \o <<"_">> \o salt

\* mutant: clearSession keeps the master key
masterKeyAfterClearKept == masterKey

\* line 150
masterKeyAfterClear == Undefined

initializeWithPassword(password) ==
  /\ UNCHANGED storeVars
  /\ UNCHANGED appVars
  /\ masterKey' = password
  /\ call' = [IdleCall EXCEPT !.op = "initializeWithPassword", !.status = "ok"]
  /\ UNCHANGED <<sessionKeys, encryptionKeys, envelope, remembered, keyStorage, decryptedMemories>>

generateSessionKey(keyId, bId, bKey) ==
  /\ UNCHANGED storeVars
  /\ UNCHANGED appVars
  /\ LET keyId_ == IF Falsy(keyId) THEN generateKeyId(bId) ELSE keyId
         encryptionKey == EncryptionKey(keyId_, generateRandomKey(bKey), Undefined)
     IN /\ sessionKeys' = MapSet(sessionKeys, encryptionKey)
        /\ call' = [IdleCall EXCEPT !.op = "generateSessionKey", !.status = "ok",
                                    !.keyId = keyId, !.key = <<encryptionKey>>]
  /\ UNCHANGED <<masterKey, encryptionKeys, envelope, remembered, keyStorage, decryptedMemories>>

\* keep: the result is remembered for a later comparison
generateMemoryKey(memoryId, salt, b, keep) ==
  /\ UNCHANGED storeVars
  /\ UNCHANGED appVars
  /\ IF masterKeyMissing
     THEN /\ call' = [IdleCall EXCEPT !.op = "generateMemoryKey", !.status = "throw",
                                      !.error = "NotConfigured",
                                      !.memoryId = memoryId, !.salt = salt]
          /\ UNCHANGED <<sessionKeys, remembered>>
     ELSE LET keyId == memoryKeyId(memoryId)
              salt_ == memorySalt(salt, generateRandomSalt(b))
              encryptionKey == EncryptionKey(keyId, keyMaterial(masterKey, memoryId, salt_), salt_)
              result == [IdleCall EXCEPT !.op = "generateMemoryKey", !.status = "ok",
                                         !.memoryId = memoryId, !.salt = salt,
                                         !.master = masterKey, !.key = <<encryptionKey>>,
                                         !.cached = Cardinality(MapSet(sessionKeys, encryptionKey))]
          IN /\ sessionKeys' = MapSet(sessionKeys, encryptionKey)
             /\ call' = result
             /\ remembered' = IF keep THEN <<result>> ELSE remembered
  /\ UNCHANGED <<masterKey, encryptionKeys, envelope, keyStorage, decryptedMemories>>

clearSession ==
  /\ UNCHANGED storeVars
  /\ UNCHANGED appVars
  /\ sessionKeys' = {}
  /\ masterKey' = masterKeyAfterClear
  /\ call' = [IdleCall EXCEPT !.op = "clearSession", !.status = "ok",
                              !.master = masterKey, !.flag = sessionKeys # {}]
  /\ UNCHANGED <<encryptionKeys, envelope, remembered, keyStorage, decryptedMemories>>

\* ------------------------------------------------------------------ EncryptionService
Plaintexts == {<<>>, <<"s">>}

\* what decrypted.toString(CryptoJS.enc.Utf8) gives under a wrong key: the
\* empty string, unrelated text, or the error 'Malformed UTF-8 data'
Garbage == <<"?">>
Malformed == <<"malformed">>

\* CryptoJS.AES.decrypt followed by toString(Utf8)
AESdecrypt(encrypted, derivedKey, iv) ==
  IF encrypted.key = derivedKey /\ encrypted.iv = iv
  THEN {encrypted.plain}
  ELSE {<<>>, Garbage, Malformed}

\* lines 855-865: the key encrypt finds (none: it generates one)
encryptKey(keyId, withKms) ==
  LET key == IF ~Falsy(keyId) /\ withKms THEN getKey(keyId) ELSE <<>>
  IN IF key = <<>> /\ ~Falsy(keyId) THEN MapGet(encryptionKeys, keyId) ELSE key

\* mutant: decrypt makes up a key when it finds none, as encrypt does
decryptKeyGenerated(keyId, withKms) ==
  LET key == IF withKms THEN getKey(keyId) ELSE <<>>
      local == IF key = <<>> THEN MapGet(encryptionKeys, keyId) ELSE key
  IN IF local = <<>> THEN <<EncryptionKey(keyId, generateRandomKey(1), Undefined)>> ELSE local

\* lines 908-918: the key decrypt finds
decryptKey(keyId, withKms) ==
  LET key == IF withKms THEN getKey(keyId) ELSE <<>>
  IN IF key = <<>> THEN MapGet(encryptionKeys, keyId) ELSE key

\* line 942: !content
decryptFailed(content) == content = <<>>

\* the key ids the callers pass: of a record, or one generateKeyId made
KeyIdArgs == {memoryKeyId(r) : r \in MemoryIds} \cup {generateKeyId(b) : b \in RandomBytes}

\* mutant: generateKeyPair returns the key without keeping it
keysAfterGenerateLost(table, key) == table

\* line 820: this.keys.set(keyId_, encryptionKey)
keysAfterGenerate(table, key) == MapSet(table, key)

encrypt(content, keyId, withKms, bId, bKey, bSalt, bIv) ==
  /\ UNCHANGED storeVars
  /\ UNCHANGED appVars
  /\ LET found == encryptKey(keyId, withKms)
         generated == EncryptionKey(generateKeyId(bId), generateRandomKey(bKey), Undefined)
         key == IF found = <<>> THEN generated ELSE found[1]
         salt == <<bSalt>>
         iv == <<bIv>>
         derivedKey == PBKDF2(key.privateKey, salt, configIterations)
         encrypted == AESencrypt(content, derivedKey, iv)
     IN /\ encryptionKeys' = IF found = <<>> THEN keysAfterGenerate(encryptionKeys, generated)
                             ELSE encryptionKeys
        /\ envelope' = [data |-> EncryptedData(encrypted, toHex(iv), toHex(salt), configIterations),
                        keyId |-> keyId, content |-> content, withKms |-> withKms,
                        key |-> <<key>>]
        /\ call' = [IdleCall EXCEPT !.op = "encrypt", !.status = "ok"]
  /\ UNCHANGED <<masterKey, sessionKeys, remembered, keyStorage, decryptedMemories>>

decrypt(keyId, withKms, text) ==
  /\ UNCHANGED storeVars
  /\ UNCHANGED appVars
  /\ LET found == decryptKey(keyId, withKms)
         thrown(error) == [IdleCall EXCEPT !.op = "decrypt", !.status = "throw", !.error = error,
                                           !.keyId = keyId, !.withKms = withKms, !.key = found]
     IN IF found = <<>>
        THEN call' = thrown("KeyNotFound")
        ELSE LET salt == parseHex(envelope.data.salt)
                 iv == parseHex(envelope.data.iv)
                 derivedKey == PBKDF2(found[1].privateKey, salt, envelope.data.iterations)
             IN /\ text \in AESdecrypt(envelope.data.encryptedContent, derivedKey, iv)
                /\ call' = IF text = Malformed THEN thrown("MalformedUtf8")
                           ELSE IF decryptFailed(text) THEN thrown("DecryptionFailed")
                           ELSE [IdleCall EXCEPT !.op = "decrypt", !.status = "ok",
                                                 !.keyId = keyId, !.withKms = withKms,
                                                 !.key = found, !.content = text]
  /\ UNCHANGED <<masterKey, sessionKeys, encryptionKeys, envelope, remembered, keyStorage, decryptedMemories>>

\* the iteration counts a deployment configures: the default and another one
IterationCounts == {Iterations, 1000}

\* CryptoJS.PBKDF2(password, saltBytes).toString(Hex): the hex text of the
\* derived key, kept as the term of the password and the salt
derivedHex(password, saltBytes) == <<"#">> \o password \o <<"#">> \o toHex(saltBytes)

\* line 829: salt ? CryptoJS.enc.Hex.parse(salt) : WordArray.random(32)
saltBytesOf(salt, random) == IF Falsy(salt) THEN <<random>> ELSE parseHex(salt)

generateKeyFromPassword(password, salt, bId, bSalt) ==
  /\ UNCHANGED storeVars
  /\ UNCHANGED appVars
  /\ LET keyId == generateKeyId(bId)
         saltBytes == saltBytesOf(salt, bSalt)
         encryptionKey == EncryptionKey(keyId, derivedHex(password, saltBytes), toHex(saltBytes))
     IN /\ encryptionKeys' = MapSet(encryptionKeys, encryptionKey)
        /\ call' = [IdleCall EXCEPT !.op = "generateKeyFromPassword", !.status = "ok",
                                    !.salt = salt, !.key = <<encryptionKey>>]
  /\ UNCHANGED <<masterKey, sessionKeys, envelope, remembered, keyStorage, decryptedMemories>>

\* lines 1138-1144: setItem of all the keys of the table; a failing setItem is
\* caught
saveKeysToStorage ==
  /\ UNCHANGED storeVars
  /\ UNCHANGED appVars
  /\ keyStorage' = IF storageWritable THEN <<encryptionKeys>> ELSE keyStorage
  /\ call' = [IdleCall EXCEPT !.op = "saveKeysToStorage", !.status = "ok",
                              !.flag = storageWritable]
  /\ UNCHANGED <<masterKey, sessionKeys, encryptionKeys, envelope, remembered, decryptedMemories>>

\* lines 1154-1158: every saved key is set in the table
RECURSIVE MapSetAll(_, _)
MapSetAll(m, ks) ==
  IF ks = {} THEN m
  ELSE LET k == CHOOSE x \in ks : TRUE IN MapSetAll(MapSet(m, k), ks \ {k})

loadKeysFromStorage ==
  /\ UNCHANGED storeVars
  /\ UNCHANGED appVars
  /\ encryptionKeys' = IF keyStorage = <<>> THEN encryptionKeys
                        ELSE MapSetAll(encryptionKeys, keyStorage[1])
  /\ call' = [IdleCall EXCEPT !.op = "loadKeysFromStorage", !.status = "ok",
                              !.flag = keyStorage # <<>>]
  /\ UNCHANGED <<masterKey, sessionKeys, envelope, remembered, keyStorage, decryptedMemories>>

\* getEncryptionService of a later session (lines 1168-1176): an
\* EncryptionService is constructed with another config.iterations (lines
\* 793-803) and takes the place of the one in use; its key table holds the
\* keys loadKeysFromStorage finds
constructEncryptionService(count) ==
  /\ UNCHANGED storeVars
  /\ UNCHANGED notConfig
  /\ configIterations' = count
  /\ encryptionKeys' = IF keyStorage = <<>> THEN {} ELSE MapSetAll({}, keyStorage[1])
  /\ call' = [IdleCall EXCEPT !.op = "construct", !.status = "ok"]
  /\ UNCHANGED <<masterKey, sessionKeys, envelope, remembered, keyStorage, decryptedMemories>>

\* ------------------------------------------------------------------ MemoryManagement
\* line 527: the password decryptMemory initializes key management with
DefaultPassword == <<"default-encryption-key-2024">>

DecryptionFailedText == <<"[Decryption failed]">>

\* the record the writer stored for the envelope: its content is the
\* envelope, its metadata carry the key id and the salt of the key used
StoredMemory(memoryId, withKeyId) ==
  [id |-> memoryId, encrypted |-> TRUE, content |-> envelope.data,
   metadata |-> [encryptionKeyId |-> IF withKeyId THEN envelope.keyId ELSE Undefined,
                 encryptionSalt |-> envelope.key[1].salt]]

\* lines 515-556, called with the stored record of memoryId
decryptMemory(memoryId, withKeyId, b, text) ==
  /\ UNCHANGED storeVars
  /\ UNCHANGED appVars
  /\ LET memory == StoredMemory(memoryId, withKeyId) IN
     IF ~memory.encrypted \/ (\E d \in decryptedMemories : d.id = memory.id)
     THEN /\ call' = [IdleCall EXCEPT !.op = "decryptMemory", !.status = "skipped",
                                      !.memoryId = memory.id]
          /\ UNCHANGED <<masterKey, sessionKeys, decryptedMemories>>
     ELSE LET master == IF keyManagementInitialized THEN masterKey ELSE DefaultPassword
              encryptionKeyId == memory.metadata.encryptionKeyId
              cachedKey == IF Falsy(encryptionKeyId) THEN <<>> ELSE getKey(encryptionKeyId)
              salt_ == memorySalt(memory.metadata.encryptionSalt, generateRandomSalt(b))
              regeneratedKey == EncryptionKey(memoryKeyId(memory.id),
                                              keyMaterial(master, memory.id, salt_), salt_)
              key == IF cachedKey # <<>> THEN cachedKey[1] ELSE regeneratedKey
              salt == parseHex(memory.content.salt)
              iv == parseHex(memory.content.iv)
              derivedKey == PBKDF2(key.privateKey, salt, memory.content.iterations)
              failed == text = Malformed \/ decryptFailed(text)
              shown == IF failed THEN DecryptionFailedText ELSE text
              status == IF failed THEN "failed" ELSE "decrypted"
          IN /\ text \in AESdecrypt(memory.content.encryptedContent, derivedKey, iv)
             /\ masterKey' = master
             /\ sessionKeys' = IF cachedKey # <<>> THEN sessionKeys
                               ELSE MapSet(sessionKeys, regeneratedKey)
             /\ decryptedMemories' = {d \in decryptedMemories : d.id # memory.id}
                                       \cup {[id |-> memory.id, content |-> shown, status |-> status]}
             /\ call' = [IdleCall EXCEPT !.op = "decryptMemory", !.status = status,
                                         !.memoryId = memory.id, !.content = shown,
                                         !.key = <<key>>, !.flag = cachedKey # <<>>]
  /\ UNCHANGED <<encryptionKeys, envelope, remembered, keyStorage>>

\* ------------------------------------------------------------------ specification
\* ================================================================== wallet
\* src/lib/unified-wallet.ts lines 13-85 and src/lib/metamask-wallet.ts lines 8-87
MetaMask == <<"metamask">>
Addresses == {<<"0", "x", "A">>, <<"0", "x", "b">>, <<"0", "x", "c">>}

\* MetaMaskWalletService.isConnected, getAccountId
isConnected == IF account = <<>> THEN FALSE ELSE account[1].isConnected
metaMaskAccountId == IF account = <<>> THEN <<>> ELSE <<account[1].address>>

\* UnifiedWalletService.isWalletConnected, getAccountId, getAccount: null is <<>>
isWalletConnected == IF currentWalletType = MetaMask THEN isConnected ELSE FALSE
getAccountId == IF currentWalletType = MetaMask THEN metaMaskAccountId ELSE <<>>
getAccount == IF currentWalletType = MetaMask THEN account ELSE <<>>

\* what a connect() that ended tells its caller: connectWallet returns it,
\* the accountsChanged listener drops it
connectEnded(result) ==
  /\ returned' = IF connecting.unified THEN [op |-> "connect", result |-> result]
                 ELSE NoneReturned
  /\ connecting' = IdleConnect

\* unified-wallet.ts lines 22-35 and metamask-wallet.ts lines 35-43: up to
\* the await of switchToArkivMendoza; without MetaMask connect() returns false
connectWallet ==
  /\ UNCHANGED keyVars
  /\ UNCHANGED storeVars
  /\ UNCHANGED notWallet
  /\ connecting.pc = "idle"
  /\ currentWalletType' = MetaMask
  /\ IF installed
     THEN /\ connecting' = [IdleConnect EXCEPT !.pc = "switching", !.unified = TRUE]
          /\ returned' = NoneReturned
     ELSE /\ connecting' = IdleConnect
          /\ returned' = [op |-> "connect", result |-> FALSE]
  /\ UNCHANGED <<account, installed>>

\* metamask-wallet.ts lines 42-47: the network switch ended; its failure is
\* caught and the connection goes on
networkSwitched ==
  /\ UNCHANGED keyVars
  /\ UNCHANGED storeVars
  /\ UNCHANGED notWallet
  /\ connecting.pc = "switching"
  /\ connecting' = [connecting EXCEPT !.pc = "requesting"]
  /\ UNCHANGED <<currentWalletType, account, installed, returned>>

\* metamask-wallet.ts line 49: eth_requestAccounts resolved with accounts
accountsGranted(accounts) ==
  /\ UNCHANGED keyVars
  /\ UNCHANGED storeVars
  /\ UNCHANGED notWallet
  /\ connecting.pc = "requesting"
  /\ IF Len(accounts) > 0
     THEN /\ connecting' = [connecting EXCEPT !.pc = "balance", !.address = accounts[1]]
          /\ UNCHANGED returned
     ELSE connectEnded(FALSE)
  /\ UNCHANGED <<currentWalletType, account, installed>>

\* line 49 rejected (the user refused): the catch block returns false
accountsRefused ==
  /\ UNCHANGED keyVars
  /\ UNCHANGED storeVars
  /\ UNCHANGED notWallet
  /\ connecting.pc = "requesting"
  /\ connectEnded(FALSE)
  /\ UNCHANGED <<currentWalletType, account, installed>>

\* what getBalance gives: the balance, or '0' when the request failed
Balances == {<<"0">>, <<"1">>}

\* lines 55-63: getBalance answered (it never throws), the account is set
balanceFetched(balance) ==
  /\ UNCHANGED keyVars
  /\ UNCHANGED storeVars
  /\ UNCHANGED notWallet
  /\ connecting.pc = "balance"
  /\ account' = <<[address |-> connecting.address, balance |-> balance, isConnected |-> TRUE]>>
  /\ connectEnded(TRUE)
  /\ UNCHANGED <<currentWalletType, installed>>

\* unified-wallet.ts lines 37-58: the type is reset and MetaMask's disconnect
\* runs at once (its body has no await)
disconnectWallet ==
  /\ UNCHANGED keyVars
  /\ UNCHANGED storeVars
  /\ UNCHANGED notWallet
  /\ currentWalletType' = <<>>
  /\ account' = IF currentWalletType = MetaMask THEN <<>> ELSE account
  /\ returned' = [op |-> "disconnect", result |-> FALSE]
  /\ UNCHANGED <<installed, connecting>>

\* metamask-wallet.ts lines 17-23: the accountsChanged listener
accountsChanged(accounts) ==
  /\ UNCHANGED keyVars
  /\ UNCHANGED storeVars
  /\ UNCHANGED notWallet
  /\ installed
  /\ returned' = NoneReturned
  /\ IF Len(accounts) = 0
     THEN /\ account' = <<>>
          /\ UNCHANGED connecting
     ELSE /\ connecting.pc = "idle"
          /\ connecting' = [IdleConnect EXCEPT !.pc = "switching"]
          /\ UNCHANGED account
  /\ UNCHANGED <<currentWalletType, installed>>

\* ================================================================== fetchOwnedEntities
\* golem-storage.ts lines 343-382, with the pages of the result made explicit.
MaxPages == 3

\* the pages an owner query can have: one to MaxPages pages of keys
PageLists ==
  UNION {[1..n -> {<<>>, <<1>>, <<2, 1>>}] : n \in 1..MaxPages}

\* mutant: the result never reports a further page
hasNextPageNever(q) == FALSE

\* result.hasNextPage()
hasNextPage(q) == q.page < Len(q.pages)

\* lines 344-361: ensureInitialized, then the query is built and fetch() is awaited
fetchOwnedEntitiesStart(fetchAll) ==
  /\ UNCHANGED keyVars
  /\ UNCHANGED overlapVars
  /\ UNCHANGED notPages
  /\ UNCHANGED task
  /\ query.pc \in {"idle", "done"}
  /\ IF ensureInitializedOk
     THEN /\ initialize
          /\ entityKeys' = entityKeysInitialized
          /\ query' = [IdleQuery EXCEPT !.pc = "fetching", !.fetchAll = fetchAll]
     ELSE /\ query' = [IdleQuery EXCEPT !.pc = "done", !.status = "throw", !.fetchAll = fetchAll]
          /\ UNCHANGED service
  /\ UNCHANGED <<remote, nextKey, storage, storageWritable, configValid, breaker>>

\* what follows a page: the loop of lines 364-369 goes on, or the array is returned
afterPage(q) ==
  IF q.fetchAll /\ hasNextPage(q) THEN [q EXCEPT !.pc = "paging"]
  ELSE [q EXCEPT !.pc = "done", !.status = "ok"]

\* line 361: query.fetch() resolved with the first page of pages
queryFetched(pages) ==
  /\ UNCHANGED keyVars
  /\ UNCHANGED storeVars
  /\ UNCHANGED notPages
  /\ query.pc = "fetching"
  /\ query' = afterPage([query EXCEPT !.pages = pages, !.page = 1, !.entities = pages[1],
                                      !.requests = 1])

\* line 366: result.next() resolved, result.entities is the next page
nextFetched ==
  /\ UNCHANGED keyVars
  /\ UNCHANGED storeVars
  /\ UNCHANGED notPages
  /\ query.pc = "paging"
  /\ query' = afterPage([query EXCEPT !.page = query.page + 1,
                                      !.entities = query.entities \o query.pages[query.page + 1],
                                      !.requests = query.requests + 1])

\* line 361 or line 366 rejected: the catch block rethrows
queryFailed ==
  /\ UNCHANGED keyVars
  /\ UNCHANGED storeVars
  /\ UNCHANGED notPages
  /\ query.pc \in {"fetching", "paging"}
  /\ query' = [query EXCEPT !.pc = "done", !.status = "throw",
                            !.requests = query.requests + 1]

\* ================================================================== ChatService
\* src/lib/chat-service.ts, lines 20-254.
ChatEntityId == <<"m">>        \* CHAT_ENTITY_KEY 'chat_history_main'
ChatCategory == <<"k">>        \* 'chat_history'
ChatOwner == <<"e">>           \* 'ethereum-wallet'
ChatTags == << <<"c">>, <<"v">>, <<"y">> >>

\* JSON.stringify(chatSession): the text of an object holding the messages
stringifySession(messages) == <<"{">> \o messages \o <<"}">>

\* JSON.parse(content) followed by the test of chatSession.messages: the
\* messages, or nothing when the text is not that of a session
parseSession(content) ==
  IF Len(content) >= 2 /\ content[1] = "{" /\ content[Len(content)] = "}"
  THEN <<SubSeq(content, 2, Len(content) - 1)>>
  ELSE <<>>

\* lines 70-95: the memory saveChatMessages uploads
chatMemory(messages) ==
  Entry(ChatEntityId, stringifySession(messages), DefaultType, ChatCategory, ChatTags,
        FALSE, ChatOwner, Len(stringifySession(messages)))

\* What the getEntity calls of one retrieveMemory answer: the point fetch
\* alone, or the point fetch without value followed by the recovery fetch.
Answers(key) ==
  {<<sh>> : sh \in FetchShapes(key) \cap {"value", "throw"}}
    \cup {<<sh, rec>> : sh \in FetchShapes(key) \cap {"text", "empty"}, rec \in FetchShapes(key)}

recoveryIssued(ans) == ensureInitializedOk /\ Len(ans) = 2 /\ ~breakerOpen

\* golem-storage.ts lines 286-296: the nullable MemoryEntry retrieveMemory returns
retrieved(key, ans) ==
  IF ~ensureInitializedOk \/ ans[1] = "throw" THEN <<>>
  ELSE IF ans[1] = "value" THEN decodeEntity(key, remote[key])
  ELSE IF breakerOpen THEN <<>>
  ELSE recovered(key, ans[2])

\* the effect of one retrieveMemory on the service and on the breaker
retrieveEffects(ans) ==
  /\ isInitialized' = (isInitialized \/ configValid)
  /\ clients' = (clients \/ ensureInitializedOk)
  /\ entityKeys' = IF ensureInitializedOk THEN entityKeysInitialized ELSE entityKeys
  /\ individualFetchFailures' =
       IF recoveryIssued(ans) THEN failuresAfter(individualFetchFailures, ans[2])
       ELSE individualFetchFailures
  /\ skipIndividualFetch' =
       IF recoveryIssued(ans) THEN skipAfter(individualFetchFailures, skipIndividualFetch, ans[2])
       ELSE skipIndividualFetch
  /\ remoteFaults' = (remoteFaults \/ ans # <<"value">>)
  /\ UNCHANGED <<remote, nextKey, storage, storageWritable, configValid, callsAfterTrip>>

\* loadChatMessages returns messages: addMessage goes on to saveChatMessages
loaded(r, messages) ==
  IF r.op = "add"
  THEN [r EXCEPT !.pc = "creating", !.existing = messages, !.keys = <<>>, !.idx = 0, !.key = 0]
  ELSE [r EXCEPT !.pc = "done", !.status = "ok", !.result = messages,
                 !.keys = <<>>, !.idx = 0, !.key = 0]

\* lines 133-144: the stored key replaces the tracked key when there is one
trackedKey == IF storageWritable /\ chatStoredKey # <<>> THEN chatStoredKey ELSE chatEntityKey

\* lines 126-147: loadChatMessages up to its first await
loadChatMessagesBegin(c, op, message) ==
  /\ chat[c].pc \in {"idle", "done"}
  /\ chatEntityKey' = trackedKey
  /\ chat' = [chat EXCEPT ![c] =
                [IdleChat EXCEPT !.op = op, !.message = message, !.seen = added,
                                 !.keyBefore = chatEntityKey, !.storedBefore = chatStoredKey,
                                 !.saved = IF chat[c].op = "save" /\ chat[c].status = "ok"
                                           THEN <<chat[c].result>> ELSE <<>>,
                                 !.pc = IF trackedKey # <<>> THEN "retrieving" ELSE "searching",
                                 !.key = IF trackedKey # <<>> THEN trackedKey[1] ELSE 0]]
  /\ UNCHANGED <<chatStoredKey, added, remoteFaults>>

\* the messages are represented by their ids: two calls never build the same one
addMessage(c, message) ==
  /\ UNCHANGED keyVars
  /\ UNCHANGED notChat
  /\ UNCHANGED storeVars
  /\ \A d \in Callers : ~(chat[d].op = "add" /\ chat[d].message = <<message>>)
  /\ message \notin added
  /\ loadChatMessagesBegin(c, "add", <<message>>)

loadChatMessages(c) ==
  /\ UNCHANGED keyVars
  /\ UNCHANGED notChat
  /\ UNCHANGED storeVars
  /\ loadChatMessagesBegin(c, "load", <<>>)

\* lines 50-98: saveChatMessages up to its await of uploadMemory
saveChatMessages(c, messages) ==
  /\ UNCHANGED keyVars
  /\ UNCHANGED notChat
  /\ UNCHANGED storeVars
  /\ chat[c].pc \in {"idle", "done"}
  /\ chat' = [chat EXCEPT ![c] =
                [IdleChat EXCEPT !.op = "save", !.pc = "creating", !.existing = messages,
                                 !.seen = added,
                                 !.keyBefore = chatEntityKey, !.storedBefore = chatStoredKey]]
  /\ UNCHANGED <<chatEntityKey, chatStoredKey, added, remoteFaults>>

\* line 147: retrieveMemory(this.chatEntityKey) answered
trackedRetrieved(c, ans) ==
  /\ UNCHANGED keyVars
  /\ UNCHANGED notChat
  /\ UNCHANGED overlapVars
  /\ UNCHANGED task
  /\ chat[c].pc = "retrieving"
  /\ ans \in Answers(chat[c].key)
  /\ retrieveEffects(ans)
  /\ LET mem == retrieved(chat[c].key, ans)
         session == IF mem # <<>> /\ ~Falsy(mem[1].content)
                    THEN parseSession(mem[1].content) ELSE <<>>
         r == [chat[c] EXCEPT !.faulty = (@ \/ ans # <<"value">>)]
     IN chat' = [chat EXCEPT ![c] =
                   IF session # <<>> THEN loaded(r, session[1])
                   ELSE [r EXCEPT !.pc = "searching", !.key = 0]]
  /\ UNCHANGED <<chatEntityKey, chatStoredKey, added>>

\* the loop of lines 177-207 over allEntityKeys starts, or ends at once with
\* the welcome message
scan(r, keys) ==
  IF keys = <<>> THEN loaded(r, <<Welcome>>)
  ELSE [r EXCEPT !.pc = "scanning", !.keys = keys, !.idx = 1]

\* line 175: getAllEntityKeys returned the enumerated keys
chatEnumerated(c, entities) ==
  /\ UNCHANGED keyVars
  /\ UNCHANGED notChat
  /\ UNCHANGED overlapVars
  /\ UNCHANGED task
  /\ chat[c].pc = "searching"
  /\ ensureInitializedOk
  /\ initialize
  /\ LET keys == [i \in DOMAIN entities |-> entities[i].key]
     IN /\ entityKeys' = indexAfterEnumeration(entityKeysInitialized, keys)
        /\ storage' = saveEntityKeysToStorage(entityKeys')
        /\ chat' = [chat EXCEPT ![c] = scan(chat[c], keys)]
  /\ UNCHANGED <<remote, nextKey, storageWritable, configValid, breaker>>
  /\ UNCHANGED <<chatEntityKey, chatStoredKey, added, remoteFaults>>

\* line 175: the owner query of getAllEntityKeys failed, the cached keys are returned
chatEnumerationFailed(c) ==
  /\ UNCHANGED keyVars
  /\ UNCHANGED notChat
  /\ UNCHANGED overlapVars
  /\ UNCHANGED task
  /\ chat[c].pc = "searching"
  /\ isInitialized' = (isInitialized \/ configValid)
  /\ clients' = (clients \/ ensureInitializedOk)
  /\ entityKeys' = IF ensureInitializedOk THEN entityKeysInitialized ELSE entityKeys
  /\ chat' = [chat EXCEPT ![c] = scan([chat[c] EXCEPT !.faulty = TRUE], cachedKeys(entityKeys'))]
  /\ remoteFaults' = TRUE
  /\ UNCHANGED <<remote, nextKey, storage, storageWritable, configValid, breaker>>
  /\ UNCHANGED <<chatEntityKey, chatStoredKey, added>>

\* line 179: retrieveMemory(entityKey) of the loop answered
scanned(c, ans) ==
  /\ UNCHANGED keyVars
  /\ UNCHANGED notChat
  /\ UNCHANGED overlapVars
  /\ UNCHANGED task
  /\ chat[c].pc = "scanning"
  /\ ans \in Answers(chat[c].keys[chat[c].idx])
  /\ retrieveEffects(ans)
  /\ LET r == [chat[c] EXCEPT !.faulty = (@ \/ ans # <<"value">>)]
         key == r.keys[r.idx]
         mem == retrieved(key, ans)
         session == IF mem # <<>> /\ mem[1].type = DefaultType /\ mem[1].category = ChatCategory
                    THEN parseSession(mem[1].content) ELSE <<>>
     IN IF session # <<>>
        THEN /\ chatEntityKey' = <<key>>
             /\ chatStoredKey' = IF storageWritable THEN <<key>> ELSE chatStoredKey
             /\ chat' = [chat EXCEPT ![c] = loaded(r, session[1])]
        ELSE /\ chat' = [chat EXCEPT ![c] =
                           IF r.idx = Len(r.keys) THEN loaded(r, <<Welcome>>)
                           ELSE [r EXCEPT !.idx = r.idx + 1]]
             /\ UNCHANGED <<chatEntityKey, chatStoredKey>>
  /\ UNCHANGED added

\* mutant: the key of the entity just written is not tracked
keyAfterSaveKept(tracked, entityKey) == tracked

\* line 102: this.chatEntityKey = uploadResult.entityKey
keyAfterSave(tracked, entityKey) == <<entityKey>>

\* line 98: uploadMemory(memory) resolved (the remote accepted the entity) or rejected
chatUploaded(c, accepted) ==
  /\ UNCHANGED keyVars
  /\ UNCHANGED notChat
  /\ UNCHANGED overlapVars
  /\ UNCHANGED task
  /\ chat[c].pc = "creating"
  /\ accepted => (ensureInitializedOk /\ nextKey <= MaxKeys)
  /\ isInitialized' = (isInitialized \/ configValid)
  /\ clients' = (clients \/ ensureInitializedOk)
  /\ LET r == chat[c]
         messages == r.existing \o r.message
     IN IF accepted
        THEN /\ remote' = [remote EXCEPT ![nextKey] = jsonToPayload(chatMemory(messages))]
             /\ nextKey' = nextKey + 1
             /\ entityKeys' = indexAfterCreate(entityKeysInitialized, nextKey, TRUE)
             /\ storage' = saveEntityKeysToStorage(entityKeys')
             /\ chatEntityKey' = keyAfterSave(chatEntityKey, nextKey)
             /\ chatStoredKey' = IF storageWritable THEN <<nextKey>> ELSE chatStoredKey
             /\ chat' = [chat EXCEPT ![c] = [r EXCEPT !.pc = "done", !.status = "ok",
                                                      !.result = messages, !.key = nextKey]]
             /\ added' = added \cup (IF r.op = "add" THEN Range(r.message) ELSE {})
             /\ UNCHANGED remoteFaults
        ELSE /\ entityKeys' = IF ensureInitializedOk THEN entityKeysInitialized ELSE entityKeys
             /\ chat' = [chat EXCEPT ![c] = [r EXCEPT !.pc = "done", !.status = "throw",
                                                      !.faulty = TRUE]]
             /\ remoteFaults' = TRUE
             /\ UNCHANGED <<remote, nextKey, storage, chatEntityKey, chatStoredKey, added>>
  /\ UNCHANGED <<storageWritable, configValid, breaker>>

Shapes == {"value", "text", "empty", "throw"}

\* the writes and the key enumeration
NextStore ==
  \/ \E m \in UploadSet : uploadMemoryStart(m)
  \/ \E a \in BOOLEAN : createEntityDone(a)
  \/ \E k \in Keys : deleteMemoryStart(k)
  \/ \E a \in BOOLEAN : deleteEntityDone(a)
  \/ cleanup
  \/ storageChange
  \/ getAllEntityKeysStart
  \/ enumerationFailed
  \/ \E es \in Listings(ListingFloor, FALSE) : enumerated(es)

\* the writes and the point fetch
NextPoint ==
  \/ \E m \in UploadSet : uploadMemoryStart(m)
  \/ \E a \in BOOLEAN : createEntityDone(a)
  \/ \E k \in Keys : deleteMemoryStart(k)
  \/ \E a \in BOOLEAN : deleteEntityDone(a)
  \/ \E k \in Keys : retrieveMemoryStart(k)
  \/ \E sh \in Shapes : pointFetched(sh)
  \/ \E sh \in Shapes : recoveryFetched(sh)

\* key management: the session cache and the derivations
NextDerive ==
  \/ \E p \in Passwords : initializeWithPassword(p)
  \/ \E id \in {Undefined, memoryKeyId(<<"a">>)} : generateSessionKey(id, 1, 1)
  \/ \E r \in MemoryIds, sa \in {Undefined, <<>>, <<"c">>}, b \in RandomBytes, keep \in BOOLEAN :
         generateMemoryKey(r, sa, b, keep)
  \/ clearSession

\* encryption and decryption under derived and generated keys
NextKeys ==
  \/ initializeWithPassword(<<"p">>)
  \/ \E r \in MemoryIds, sa \in {<<"c">>, <<"b", "_", "c">>} : generateMemoryKey(r, sa, 1, FALSE)
  \/ clearSession
  \/ \E c \in Plaintexts, id \in KeyIdArgs \cup {Undefined}, kms \in BOOLEAN, b \in RandomBytes :
         encrypt(c, id, kms, b, 1, 1, 2)
  \/ \E id \in KeyIdArgs, kms \in BOOLEAN, t \in Plaintexts \cup {Garbage, Malformed} :
         decrypt(id, kms, t)

\* the writes whose outcome the caller may not learn, and the enumeration
NextWrite ==
  \/ \E m \in UploadSet : uploadMemoryStart(m)
  \/ \E a \in BOOLEAN : createEntityDone(a)
  \/ createEntityLost
  \/ \E k \in Keys : updateMemoryStart(k, Eggs)
  \/ \E a \in BOOLEAN : updateEntityDone(a)
  \/ cleanup
  \/ getAllEntityKeysStart
  \/ enumerationFailed
  \/ \E es \in Listings(ListingFloor, FALSE) : enumerated(es)

\* the writes with a key enumeration running beside them
NextOverlap ==
  \/ \E m \in UploadSet : uploadMemoryStart(m)
  \/ \E a \in BOOLEAN : createEntityDone(a)
  \/ \E k \in Keys : deleteMemoryStart(k)
  \/ \E a \in BOOLEAN : deleteEntityDone(a)
  \/ overlappingEnumerationStart
  \/ overlappingEnumerated
  \/ overlappingEnumerationFailed

\* the storage statistics
NextStats ==
  \/ getStorageStatsStart
  \/ \E n \in StatCounts : statsEnumerated(n)
  \/ statsEnumerationFailed
  \/ \E sh \in Shapes, mem \in {<<>>} \cup {<<s>> : s \in MemorySizes} : statsFetched(sh, mem)
  \/ \E sh \in Shapes, mem \in {<<>>} \cup {<<s>> : s \in MemorySizes} : statsRecovered(sh, mem)

\* the local key table and its saved copy
NextVault ==
  \/ initializeWithPassword(<<"p">>)
  \/ generateMemoryKey(<<"a">>, <<"c">>, 1, FALSE)
  \/ clearSession
  \/ \E pw \in {<<"p">>, <<"w">>}, sa \in {Undefined, toHex(<<2>>)} :
         generateKeyFromPassword(pw, sa, 1, 1)
  \/ \E id \in {Undefined, memoryKeyId(<<"a">>)}, b \in RandomBytes :
         encrypt(<<"s">>, id, TRUE, b, 1, 1, 2)
  \/ saveKeysToStorage
  \/ loadKeysFromStorage

\* records encrypted in one session and shown in a later one
NextRecover ==
  \/ \E pw \in {<<"p">>, <<"q">>} : initializeWithPassword(pw)
  \/ \E sa \in {Undefined, <<"c">>} : generateMemoryKey(<<"a">>, sa, 1, FALSE)
  \/ clearSession
  \/ \E c \in Plaintexts : encrypt(c, memoryKeyId(<<"a">>), TRUE, 1, 1, 1, 2)
  \/ \E r \in {x \in MemoryIds : envelope.keyId = memoryKeyId(x)}, wk \in BOOLEAN,
        t \in Plaintexts \cup {Garbage, Malformed} :
         decryptMemory(r, wk, 2, t)

\* the answers explored for one retrieveMemory of ChatService
ChatAnswers == {<<"value">>, <<"throw">>, <<"empty", "empty">>, <<"text", "value">>}

\* the steps of the calls of ChatService
ChatSteps(answers) ==
  \/ \E c \in Callers, ans \in answers : trackedRetrieved(c, ans)
  \/ \E c \in Callers, es \in Listings(ListingFloor, FALSE) : chatEnumerated(c, es)
  \/ \E c \in Callers : chatEnumerationFailed(c)
  \/ \E c \in Callers, ans \in answers : scanned(c, ans)
  \/ \E c \in Callers, a \in BOOLEAN : chatUploaded(c, a)

\* addMessage and loadChatMessages, from two callers
NextChat ==
  \/ \E c \in Callers, m \in Messages : addMessage(c, m)
  \/ \E c \in Callers : loadChatMessages(c)
  \/ ChatSteps({<<"value">>, <<"throw">>})

\* the histories given to saveChatMessages
Histories == {<<>>, <<"a">>, <<"b", "a">>}

\* saveChatMessages and loadChatMessages, one call at a time
NextHistory ==
  \/ \E ms \in Histories : chat[2].pc = "idle" /\ saveChatMessages(1, ms)
  \/ chat[2].pc = "idle" /\ loadChatMessages(1)
  \/ ChatSteps(ChatAnswers)

\* envelopes read back by a service configured with another iteration count
NextConfig ==
  \/ initializeWithPassword(<<"p">>)
  \/ \E sa \in {<<"c">>, <<"d">>} : generateMemoryKey(<<"a">>, sa, 1, FALSE)
  \/ clearSession
  \/ \E count \in IterationCounts : constructEncryptionService(count)
  \/ \E c \in Plaintexts, id \in {memoryKeyId(<<"a">>), generateKeyId(1)}, kms \in BOOLEAN :
         encrypt(c, id, kms, 1, 1, 1, 2)
  \/ \E id \in {memoryKeyId(<<"a">>), generateKeyId(1)}, kms \in BOOLEAN,
        t \in Plaintexts \cup {Garbage, Malformed} :
         decrypt(id, kms, t)

\* the wallet
\* ---- GoogleCalendarClient (src/lib/chat-service.ts) ----

Tokens == {"s", "t"}

\* response.status of the calendar endpoint
Statuses == {200, 401, 500}

isAuthenticated == accessToken # <<>>

\* JSON.stringify(tokens): a refresh_token that is undefined is left out
setTokens(access, refresh) ==
  /\ accessToken' = <<access>>
  /\ refreshToken' = refresh
  /\ calendarTokens' = <<[access_token |-> <<access>>, refresh_token |-> refresh]>>
  /\ UNCHANGED <<request, revoking>>
  /\ UNCHANGED storeVars
  /\ UNCHANGED keyVars
  /\ UNCHANGED notCalendar

\* a caller (getCalendarList, createEvent, ...) starts makeRequest
makeRequest ==
  /\ request.pc = "idle"
  /\ request' = IF accessToken = <<>>
                  THEN [pc |-> "idle", status |-> "threw", refresh |-> "none"]
                  ELSE [pc |-> "fetching", status |-> "none", refresh |-> "none"]
  /\ UNCHANGED <<accessToken, refreshToken, calendarTokens, revoking>>
  /\ UNCHANGED storeVars
  /\ UNCHANGED keyVars
  /\ UNCHANGED notCalendar

\* refreshAccessToken up to its fetch: without a refresh token it throws
\* before the try block, and makeRequest throws with it
refreshAccessToken ==
  request' = IF refreshToken = <<>>
                THEN [pc |-> "idle", status |-> "threw", refresh |-> "absent"]
                ELSE [request EXCEPT !.pc = "refreshing"]

\* the calendar endpoint answered the fetch of makeRequest
responded(status) ==
  /\ request.pc = "fetching"
  /\ CASE status = 200 -> request' = [request EXCEPT !.pc = "idle", !.status = "returned"]
        [] status = 401 -> refreshAccessToken
        [] OTHER -> request' = [request EXCEPT !.pc = "idle", !.status = "threw"]
  /\ UNCHANGED <<accessToken, refreshToken, calendarTokens, revoking>>
  /\ UNCHANGED storeVars
  /\ UNCHANGED keyVars
  /\ UNCHANGED notCalendar

\* JSON.parse(localStorage.getItem('google-calendar-tokens') || '{}')
storedTokens == IF calendarTokens = <<>>
                  THEN [access_token |-> <<>>, refresh_token |-> <<>>]
                  ELSE calendarTokens[1]

\* makeRequest after the refresh: return this.makeRequest(url, options)
retry(r) == [r EXCEPT !.pc = "fetching"]

\* the token endpoint answered the fetch of refreshAccessToken; ok is
\* response.ok, access is tokens.access_token
refreshed(ok, access) ==
  /\ request.pc = "refreshing"
  /\ IF ok
       THEN /\ accessToken' = <<access>>
            /\ calendarTokens' = <<[storedTokens EXCEPT !.access_token = <<access>>]>>
            /\ request' = retry([request EXCEPT !.refresh = "ok"])
            /\ UNCHANGED refreshToken
       ELSE /\ accessToken' = <<>>
            /\ refreshToken' = <<>>
            /\ calendarTokens' = <<>>
            /\ request' = [pc |-> "idle", status |-> "threw", refresh |-> "failed"]
  /\ UNCHANGED revoking
  /\ UNCHANGED storeVars
  /\ UNCHANGED keyVars
  /\ UNCHANGED notCalendar

clearCredentials ==
  /\ calendarTokens' = <<>>
  /\ accessToken' = <<>>
  /\ refreshToken' = <<>>

revokeAccess ==
  /\ ~revoking
  /\ IF accessToken # <<>>
       THEN /\ revoking' = TRUE
            /\ UNCHANGED <<accessToken, refreshToken, calendarTokens>>
       ELSE /\ clearCredentials
            /\ UNCHANGED revoking
  /\ UNCHANGED request
  /\ UNCHANGED storeVars
  /\ UNCHANGED keyVars
  /\ UNCHANGED notCalendar

\* the revoke endpoint answered (whatever its status), or its fetch failed
revokeAnswered(answered) ==
  /\ revoking
  /\ revoking' = FALSE
  /\ IF answered
       THEN clearCredentials
       ELSE UNCHANGED <<accessToken, refreshToken, calendarTokens>>
  /\ UNCHANGED request
  /\ UNCHANGED storeVars
  /\ UNCHANGED keyVars
  /\ UNCHANGED notCalendar

\* the endpoints answering the request in flight
CalendarSteps ==
  \/ \E status \in Statuses : responded(status)
  \/ \E ok \in BOOLEAN, access \in Tokens : refreshed(ok, access)

NextCalendar ==
  \/ \E access \in Tokens, refresh \in {<<>>} \cup {<<t>> : t \in Tokens} : setTokens(access, refresh)
  \/ makeRequest
  \/ CalendarSteps
  \/ revokeAccess
  \/ \E answered \in BOOLEAN : revokeAnswered(answered)

NextWallet ==
  \/ connectWallet
  \/ \E accounts \in {<<>>} \cup {<<a>> : a \in Addresses} : accountsGranted(accounts)
  \/ networkSwitched
  \/ accountsRefused
  \/ \E balance \in Balances : balanceFetched(balance)
  \/ disconnectWallet
  \/ \E accounts \in {<<>>} \cup {<<a>> : a \in Addresses} : accountsChanged(accounts)

\* the owner query, with and without fetchAll
PageSteps ==
  \/ \E pages \in PageLists : queryFetched(pages)
  \/ nextFetched

NextPages ==
  \/ \E fetchAll \in BOOLEAN : fetchOwnedEntitiesStart(fetchAll)
  \/ PageSteps
  \/ queryFailed

\* the reads
NextSearch ==
  \/ \E a \in SearchArgs : searchMemoriesStart(a[1], a[2], a[3])
  \/ searchListingFailed
  \/ \E es \in Listings(Max(task.limit, ListingFloor), TRUE) : searchListed(es)
  \/ \E i \in Keys, sh \in Shapes : recoveryDone(i, sh)
  \/ getAllMemoriesDirectlyStart
  \/ \E k \in Keys : retrieveMemoryStart(k)
  \/ enumerationFailed
  \/ \E es \in Listings(ListingFloor, FALSE) : enumerated(es)
  \/ \E sh \in Shapes : pointFetched(sh)
  \/ \E sh \in Shapes : recoveryFetched(sh)
  \/ cleanup

Next == NextStore \/ NextSearch \/ NextPoint \/ NextDerive \/ NextKeys \/ NextVault \/ NextRecover
          \/ NextWrite \/ NextOverlap \/ NextStats \/ NextChat \/ NextHistory
          \/ NextPages \/ NextConfig \/ NextWallet \/ NextCalendar

Spec == Init /\ [][Next]_vars

InitSearch == InitIn({<<MilkA, EggsB>>, <<NoPolicy, MilkA>>, <<NoId, NotJson>>},
                     {NoStorage, Stored(<<1, 2>>)}, {TRUE})

SpecSearch == InitSearch /\ [][NextSearch]_vars

InitStore == InitIn({<<>>, <<MilkA>>}, {NoStorage, Stored(<<1>>)}, BOOLEAN)

SpecStore == InitStore /\ [][NextStore]_vars

SpecPoint == InitStore /\ [][NextPoint]_vars

InitKeys == InitIn({<<>>}, {NoStorage}, {TRUE}) /\ configValid

SpecKeys == InitKeys /\ [][NextKeys]_vars

SpecDerive == InitKeys /\ [][NextDerive]_vars

InitWrite == InitIn({<<>>, <<MilkA>>}, {NoStorage}, BOOLEAN)

SpecWrite == InitWrite /\ [][NextWrite]_vars

InitOverlap == InitIn({<<>>, <<MilkA>>}, {NoStorage}, {TRUE})

SpecOverlap == InitOverlap /\ [][NextOverlap]_vars

InitStats == InitIn({<<>>}, {NoStorage}, {TRUE})

SpecStats == InitStats /\ [][NextStats]_vars

SpecRecover == InitKeys /\ [][NextRecover]_vars

InitVault == InitIn({<<>>}, {NoStorage}, BOOLEAN) /\ configValid

SpecVault == InitVault /\ [][NextVault]_vars

InitChat == InitIn({<<>>, <<MilkA>>}, {NoStorage}, BOOLEAN) /\ configValid

InitAdd == InitIn({<<>>}, {NoStorage}, {TRUE}) /\ configValid

SpecChat == InitAdd /\ [][NextChat]_vars

SpecHistory == InitChat /\ [][NextHistory]_vars

SpecConfig == InitKeys /\ [][NextConfig]_vars

InitWallet == InitWith({<<>>}, {NoStorage}, {TRUE}, BOOLEAN) /\ configValid

SpecWallet == InitWallet /\ [][NextWallet]_vars

InitCalendar == InitIn({<<>>}, {NoStorage}, {TRUE}) /\ configValid

SpecCalendar == InitCalendar /\ [][NextCalendar]_vars

\* the token endpoint and the calendar endpoint answer every call made to them
SpecCalendarFair == SpecCalendar /\ WF_vars(CalendarSteps)

InitPages == InitIn({<<>>}, {NoStorage}, {TRUE})

SpecPages == InitPages /\ [][NextPages]_vars

\* every page the remote holds is delivered when it is asked for: a pending
\* fetch() or next() eventually resolves or rejects
SpecPagesFair == SpecPages /\ WF_vars(PageSteps)

\* ================================================================== claims
SearchDone == task.op = "search" /\ task.pc = "done"

\* the record a healthy entity under key decodes to
RecordOf(key) == decodeEntity(key, remote[key])

\* C1: once skipIndividualFetch is set it stays set (cleanup and
\* re-initialization included) and no step issues a recovery getEntity any
\* more: the count of recovery calls made under a tripped breaker stays flat.
C1_BreakerMonotone ==
  [][skipIndividualFetch => (skipIndividualFetch' /\ callsAfterTrip' = callsAfterTrip)]_vars

\* a search met an entity without payload while the breaker was set and
\* answered null for it without fetching
C1_Witness ==
  /\ skipIndividualFetch
  /\ task.op = "search"
  /\ \E i \in DOMAIN task.shapes : task.shapes[i] = "skipped" /\ task.slots[i] = <<>>

\* C2: every entity of the batch whose recovery fetch returned the payload
\* (as value or through toText()) is decoded exactly as the same payload is
\* decoded when it arrives inline.
C2_RecoveredAsInline ==
  task.op = "search" =>
    \A i \in DOMAIN task.shapes :
      task.shapes[i] \in {"value", "text"} =>
        task.slots[i] = RecordOf(task.entities[i].key)

\* C3: a recovery fetch that obtains a payload (value or toText() text) leaves
\* individualFetchFailures at 0.
RecoverySucceeded ==
  \E sh \in {"value", "text"} : (\E i \in Keys : recoveryDone(i, sh)) \/ recoveryFetched(sh)

C3_ResetOnSuccess == [][RecoverySucceeded => individualFetchFailures' = 0]_vars

\* a batch in which a recovery fetch failed and a later one succeeded
C3_Witness ==
  /\ task.op = "search"
  /\ task.pending = {}
  /\ individualFetchFailures = 0
  /\ \E i, j \in DOMAIN task.shapes :
       task.shapes[i] \in {"empty", "throw"} /\ task.shapes[j] \in {"value", "text"}

\* C4: searchMemories("", owner, 50) against a remote whose owner listing
\* returns zero entities without throwing returns the record of every key of
\* the Local Key Index whose entity is retrievable and belongs to the owner.
C4_FallbackComplete ==
  (/\ SearchDone
   /\ task.searchText = <<>> /\ task.owner # Undefined /\ task.limit = 50
   /\ task.listed = 0 /\ task.enumThrew = 0 /\ task.enumListed <= 0)
  => \A k \in Range(task.indexBefore) :
       (/\ RecordOf(k) # <<>>
        /\ RecordOf(k)[1].accessPolicy # Undefined
        /\ toLowerCase(RecordOf(k)[1].accessPolicy) = toLowerCase(task.owner))
       => RecordOf(k)[1] \in Range(task.result)

\* C5: getAllEntityKeys returns the keys of the Local Key Index, and keeps
\* the index, both when the owner query throws and when it returns no entity.
C5_IndexKeptOnEmptyListing ==
  (/\ task.op = "getKeys" /\ task.pc = "done"
   /\ (task.enumThrew = 1 \/ task.enumListed = 0))
  => (task.keys = task.indexBefore /\ entityKeys = task.indexBefore)

EnumerationExhausted == SearchDone /\ task.enumThrew = 2 /\ task.memories = <<>>

HealthyHit(i) ==
  LET r == RecordOf(task.entities[i].key)
  IN /\ task.entities[i].hasValue
     /\ r # <<>>
     /\ r[1].accessPolicy # Undefined
     /\ textFilter(r, task.searchText) # <<>>
     /\ task.owner # Undefined => toLowerCase(r[1].accessPolicy) = toLowerCase(task.owner)

C8_PerEntityIsolation ==
  (SearchDone /\ task.limit = 50 /\ Len(task.entities) > 0)
  => /\ task.status = "ok"
     /\ \A i \in DOMAIN task.entities :
          HealthyHit(i) => RecordOf(task.entities[i].key)[1] \in Range(task.result)
     /\ \A j \in DOMAIN task.result :
          task.result[j].id # Undefined /\ task.result[j].accessPolicy # Undefined

UploadReturned == task.op = "upload" /\ task.pc = "done" /\ task.status = "ok"
DeleteReturnedTrue == task.op = "delete" /\ task.pc = "done" /\ task.status = "ok" /\ task.flag

C10_FailedDeleteKeepsIndex ==
  [][deleteEntityDone(FALSE)
       => (/\ task'.pc = "done" /\ task'.status = "ok" /\ ~task'.flag
           /\ entityKeys' = entityKeys
           /\ storage' = storage)]_vars

\* deleteMemory returned false for a key that is still indexed
C10_Witness ==
  /\ task.op = "delete" /\ task.pc = "done" /\ task.status = "ok" /\ ~task.flag
  /\ task.key \in Range(entityKeys)
  /\ task.key \in Range(storage.keys)

\* C11: a rejected createEntity makes uploadMemory throw and leaves the remote
\* store, the in-memory set and the persisted array as they were when the call
\* was issued: no key is indexed for a create that was not confirmed.
C11_FailedCreateKeepsIndex ==
  [][createEntityDone(FALSE)
       => (/\ task'.pc = "done" /\ task'.status = "throw"
           /\ remote' = remote
           /\ entityKeys' = entityKeys
           /\ storage' = storage)]_vars

\* uploadMemory threw after createEntity was rejected, with keys in the index
C11_Witness ==
  /\ task.op = "upload" /\ task.pc = "done" /\ task.status = "throw"
  /\ task.payload \in {jsonToPayload(m) : m \in UploadSet}
  /\ Len(entityKeys) > 0
  /\ entityKeys = task.indexBefore
  /\ storage = task.storageBefore

RetrieveReturned == task.op = "retrieve" /\ task.pc = "done" /\ task.status = "ok"

\* C12: retrieveMemory of a key whose entity no longer exists remotely returns
\* null, and when the call has completed the key is not in the Local Key Index.
C12_StaleKeyEvicted ==
  (RetrieveReturned /\ remote[task.key] = NoEntity)
  => (task.result = <<>> /\ task.key \notin Range(entityKeys))

\* a step that completes an operation mutating the Local Key Index: the
\* create or the delete was accepted, or the owner query of getAllEntityKeys
\* returned
IndexMutated ==
  /\ task'.pc = "done"
  /\ \/ task.pc = "creating" /\ task'.status = "ok"
     \/ task.pc = "deleting" /\ task'.flag
     \/ task.pc = "enumerating" /\ task'.op = "getKeys" /\ task'.enumListed >= 0

\* a step in which initialize() ran to its end
Initialized == ~isInitialized /\ isInitialized'

\* initialize() replaces the set by the persisted array when there is one
LoadsPersisted == (Initialized /\ storage.present) => entityKeys' = storage.keys

PayloadObtained ==
  \/ task.shapes = <<"value">>
  \/ Len(task.shapes) = 2 /\ task.shapes[2] \in {"value", "text"}

\* C14: retrieveMemory of the key under which uploadMemory stored the record
\* m, the entity being still as uploaded, returns m with the key as remote key.
C14_RoundTrip ==
  \A m \in UploadSet :
    (RetrieveReturned /\ remote[task.key] = jsonToPayload(m) /\ PayloadObtained)
    => task.result = <<[m EXCEPT !.ipfsHash = task.key]>>

\* decrypt was called, with key management passed, on the envelope encrypt
\* made under the derived key of a record, with the key id given to encrypt,
\* the cache still holding that key
DecryptedOwn ==
  /\ call.op = "decrypt" /\ call.withKms
  /\ envelope.withKms
  /\ keyManagementInitialized
  /\ envelope.keyId \in {memoryKeyId(r) : r \in MemoryIds}
  /\ call.keyId = envelope.keyId
  /\ call.key = envelope.key
  /\ envelope.key[1].salt # Undefined

\* C15: decrypt of the envelope of encrypt(P, keyId) under the same derived
\* key returns exactly P, for every plaintext P, the empty one included.
C15_RoundTrip ==
  DecryptedOwn => (call.status = "ok" /\ call.content = envelope.content)

\* generateMemoryKey returned, and an earlier call under the same master key
\* with the same record id and the same given salt is remembered
DerivedAgain ==
  /\ call.op = "generateMemoryKey" /\ call.status = "ok"
  /\ remembered # <<>>
  /\ remembered[1].master = call.master
  /\ remembered[1].memoryId = call.memoryId
  /\ remembered[1].salt = call.salt
  /\ ~Falsy(call.salt)

C17_TamperDetected ==
  (/\ call.op = "decrypt" /\ call.key # <<>> /\ envelope.key # <<>>
   /\ call.key[1].salt # Undefined
   /\ envelope.key[1].salt # Undefined
   /\ call.key[1].keyId # envelope.key[1].keyId)
  => /\ call.key[1].privateKey # envelope.key[1].privateKey
     /\ ~(call.status = "ok" /\ call.content = envelope.content)

\* C18: generateMemoryKey called while no master key is set throws the
\* not-configured error and leaves the session key cache as it was.
C18_NotConfigured ==
  [][(call'.op = "generateMemoryKey" /\ Falsy(masterKey))
       => (/\ call'.status = "throw" /\ call'.error = "NotConfigured"
           /\ sessionKeys' = sessionKeys
           /\ masterKey' = masterKey)]_vars

\* a derivation failed after clearSession wiped a service that had derived keys
C18_Witness ==
  /\ call.op = "generateMemoryKey" /\ call.status = "throw"
  /\ masterKey = Undefined
  /\ remembered # <<>>
  /\ sessionKeys = {}

\* C19: right after clearSession the service is uninitialized and getKey
\* finds no key under any id; as long as no master key has been set again
\* the cache holds no derived key.
C19_SessionCleared ==
  /\ call.op = "clearSession" =>
       (/\ masterKey = Undefined
        /\ getAllKeys = {}
        /\ \A id \in KeyIdArgs : getKey(id) = <<>>)
  /\ masterKey = Undefined =>
       (/\ ~keyManagementInitialized
        /\ \A e \in sessionKeys : e.salt = Undefined)

\* clearSession wiped an initialized service whose cache held keys
C19_Witness ==
  /\ call.op = "clearSession"
  /\ call.flag
  /\ ~Falsy(call.master)
  /\ sessionKeys = {}

\* the key id is in neither table
KeyUnknown(keyId) == getKey(keyId) = <<>> /\ MapGet(encryptionKeys, keyId) = <<>>

\* C20: decrypt with a key id that is in neither table throws the
\* key-not-found error and leaves both tables and the master key as they were.
C20_KeyNotFound ==
  [][(call'.op = "decrypt" /\ KeyUnknown(call'.keyId))
       => (/\ call'.status = "throw" /\ call'.error = "KeyNotFound"
           /\ sessionKeys' = sessionKeys
           /\ encryptionKeys' = encryptionKeys
           /\ masterKey' = masterKey)]_vars

\* decrypt missed the key of a record while key management was initialized
\* and both tables held other keys
C20_Witness ==
  /\ call.op = "decrypt" /\ call.status = "throw" /\ call.error = "KeyNotFound"
  /\ call.withKms
  /\ KeyUnknown(call.keyId)
  /\ keyManagementInitialized
  /\ sessionKeys # {}
  /\ encryptionKeys # {}
  /\ envelope # NoEnvelope

\* the keys generateKeyPair can make: a generated key id, random hex, no salt
GeneratedKeys ==
  {EncryptionKey(generateKeyId(bId), generateRandomKey(bKey), Undefined) :
     bId \in RandomBytes, bKey \in RandomBytes}

\* C21: encrypt called with a key id that neither key management nor the local
\* key table resolves does not fail: it returns an envelope encrypted under a
\* key generateKeyPair made, and that key is in the local key table afterwards;
\* the session cache of key management is not touched.
C21_FallbackKey ==
  [][(call'.op = "encrypt" /\ encryptKey(envelope'.keyId, envelope'.withKms) = <<>>)
       => (/\ call'.status = "ok"
           /\ envelope'.key[1] \in GeneratedKeys
           /\ envelope'.key[1] \in encryptionKeys'
           /\ envelope'.data.encryptedContent.key.password = envelope'.key[1].privateKey
           /\ sessionKeys' = sessionKeys)]_vars

\* encrypt was given the key id of a record that no table held, with key
\* management initialized, and the key it used is a generated one now held locally
C21_Witness ==
  /\ call.op = "encrypt"
  /\ keyManagementInitialized
  /\ envelope.withKms
  /\ envelope.keyId \in {memoryKeyId(r) : r \in MemoryIds}
  /\ getKey(envelope.keyId) = <<>>
  /\ envelope.key[1].keyId \notin {memoryKeyId(r) : r \in MemoryIds}
  /\ envelope.key[1] \in encryptionKeys

\* key material that is the master key or comes from it: the material of
\* generateMemoryKey and the PBKDF2 key of generateKeyFromPassword
FromMasterKey(key) ==
  \/ key.privateKey = masterKey
  \/ \E r \in MemoryIds : key.privateKey = keyMaterial(masterKey, r, key.salt)
  \/ \E b \in 0..15 : key.privateKey = derivedHex(masterKey, <<b>>)

\* C22: the item 'encryption-keys' never holds the master key of the session
\* nor key material derived from it.
C22_NoSecretSaved ==
  (keyManagementInitialized /\ keyStorage # <<>>)
  => \A key \in keyStorage[1] : ~FromMasterKey(key)

\* decryptMemory ran, key management being initialized and its cache not
\* holding the key id of the record, on the record of an envelope encrypted
\* under the key generateMemoryKey derives for the record id from the master
\* key now set and the salt kept in the metadata
RecoveredAcrossSessions ==
  /\ call'.op = "decryptMemory" /\ call'.status # "skipped"
  /\ keyManagementInitialized
  /\ envelope.keyId = memoryKeyId(call'.memoryId)
  /\ getKey(envelope.keyId) = <<>>
  /\ ~Falsy(envelope.key[1].salt)
  /\ envelope.key[1] = EncryptionKey(envelope.keyId,
                                      keyMaterial(masterKey, call'.memoryId, envelope.key[1].salt),
                                      envelope.key[1].salt)

\* C23: a record encrypted under the key of generateMemoryKey, its salt kept
\* in the metadata, is decrypted by decryptMemory after clearSession() and a
\* new initializeWithPassword with the same master key: on the cache miss the
\* key is derived again and the content shown is the original content.
C23_Recoverable ==
  [][RecoveredAcrossSessions
       => (call'.status = "decrypted" /\ call'.content = envelope.content)]_vars

\* the step in which createEntity fails although the remote store accepted it
CreateLost == task.pc = "creating" /\ task'.status = "throw" /\ nextKey' # nextKey

\* the step in which the owner query of getAllEntityKeys returns
EnumerationReturned ==
  task.pc = "enumerating" /\ task'.op = "getKeys" /\ task'.enumListed >= 0

\* C24: when the remote store accepted createEntity and uploadMemory failed,
\* the record stays in the remote store and its key is left out of the Local
\* Key Index; a key that is unknown locally enters the index only when an
\* owner enumeration returns it, and the enumeration that returns it puts it
\* in the in-memory set and, localStorage taking the write, in the persisted array.
C24_UnknownOutcome ==
  [][/\ CreateLost =>
          (/\ remote'[nextKey] = task.payload
           /\ entityKeys' = entityKeys
           /\ storage' = storage
           /\ nextKey \notin Range(entityKeys'))
     /\ \A k \in unknownOutcome :
          /\ (/\ k \notin Range(entityKeys) \cup Range(storage.keys)
              /\ k \in Range(entityKeys'))
               => (EnumerationReturned /\ k \in Range(task'.keys))
          /\ (EnumerationReturned /\ k \in Range(task'.keys))
               => (/\ k \in Range(entityKeys')
                   /\ storageWritable => k \in Range(storage'.keys)
                   /\ remote'[k] = remote[k])]_vars

\* getAllEntityKeys returned the key of a lost create, which was in neither
\* copy of the index before and is in both now, its record still remote
C24_Witness ==
  /\ task.op = "getKeys" /\ task.pc = "done" /\ task.enumListed > 0
  /\ \E k \in unknownOutcome :
       /\ k \notin Range(task.indexBefore) \cup Range(task.storageBefore.keys)
       /\ k \in Range(entityKeys)
       /\ k \in Range(storage.keys)
       /\ remote[k] \in {jsonToPayload(m) : m \in UploadSet}

\* the steps of updateMemory: ensureInitialized, and the answer of updateEntity
UpdateStarted == Idle /\ task'.op = "update"
UpdateAnswered == task.pc = "updating" /\ task'.pc = "done"

\* C25: updateMemory writes to the entity of the key it is given and reports
\* that key: no key is handed out, no other entity changes, the persisted
\* array is not written and the in-memory set changes at most by the load of
\* initialize().
C25_UpdateFrame ==
  [][/\ UpdateStarted =>
          (/\ remote' = remote /\ nextKey' = nextKey /\ storage' = storage
           /\ entityKeys' \in {entityKeys, loadEntityKeysFromStorage})
     /\ UpdateAnswered =>
          (/\ nextKey' = nextKey /\ storage' = storage /\ entityKeys' = entityKeys
           /\ task'.key = task.key
           /\ \A k \in Keys \ {task.key} : remote'[k] = remote[k]
           /\ remote'[task.key] = IF task'.status = "ok" THEN task.payload ELSE remote[task.key]
           /\ ExistingKeys' = ExistingKeys)]_vars

\* updateMemory rewrote the entity of a key that the index does not hold
C25_Witness ==
  /\ task.op = "update" /\ task.pc = "done" /\ task.status = "ok"
  /\ remote[task.key] = jsonToPayload(Eggs)
  /\ task.key \notin Range(entityKeys)
  /\ entityKeys = task.indexBefore
  /\ storage = task.storageBefore

\* getStorageStats returned; the keys it fetched are those before task.idx
StatsReturned == task.op = "stats" /\ task.pc = "done" /\ task.status = "ok"

\* C26: getStorageStats fetches the first 20 of the keys it got and no more;
\* totalMemories is the number of keys; totalSize is that number times the
\* integer nearest (halves up) to the sum of the sizes fetched divided by the
\* number of keys sampled, and 0 when there is no key.
C26_StorageStats ==
  /\ (task.op = "stats" /\ task.pc \in {"statsFetching", "statsRecovering"})
       => (task.idx <= SampleLimit /\ task.idx <= Len(task.keys))
  /\ StatsReturned =>
       LET total == Len(task.keys)
           sampled == task.idx - 1
       IN /\ sampled = (IF total < SampleLimit THEN total ELSE SampleLimit)
          /\ task.totalMemories = total
          /\ task.enumListed >= 0 => task.totalMemories = task.enumListed
          /\ total = 0 => task.totalSize = 0
          /\ total > 0 =>
               \E a \in 0..task.size :
                 /\ task.totalSize = a * total
                 /\ 2 * sampled * a - sampled <= 2 * task.size
                 /\ 2 * task.size < 2 * sampled * a + sampled

\* 21 keys were enumerated, 20 of them fetched, and the average 1.5 was rounded up
C26_Witness ==
  /\ StatsReturned
  /\ task.enumListed = 21
  /\ task.idx = SampleLimit + 1
  /\ task.size = 30
  /\ task.totalSize = 42

\* C27: whatever the interleaving of uploadMemory, deleteMemory and
\* getAllEntityKeys, the key of the upload that completed last is in the Local
\* Key Index while its entity exists, and the key of the delete that
\* completed last is not.
C27_CoherentWithWrites ==
  /\ (UploadReturned /\ remote[task.key] # NoEntity) => task.key \in Range(entityKeys)
  /\ DeleteReturnedTrue => task.key \notin Range(entityKeys)

\* C28: the breaker is set only while the counter of consecutive failures is
\* at the threshold: skipIndividualFetch implies individualFetchFailures >= 5.
C28_TrippedAtThreshold == skipIndividualFetch => individualFetchFailures >= FailureThreshold

\* C29: decrypt of the envelope encrypt returned, called right after it in the
\* same session with the key id that was given to encrypt, returns the
\* plaintext, also when the key id was unknown to encrypt and the key was generated.
C29_SameKeyIdRoundTrip ==
  [][(/\ call.op = "encrypt"
      /\ ~Falsy(envelope.keyId)
      /\ envelope.content # <<>>
      /\ call'.op = "decrypt"
      /\ call'.keyId = envelope.keyId
      /\ call'.withKms = envelope.withKms)
       => (call'.status = "ok" /\ call'.content = envelope.content)]_vars

\* C30: searchMemories called with an owner returns only records whose
\* accessPolicy.owner is that owner, compared without case, on the primary
\* path and on the fallback paths alike.
C30_OwnerFiltered ==
  (SearchDone /\ task.status = "ok" /\ task.owner # Undefined)
  => \A j \in DOMAIN task.result :
       /\ task.result[j].accessPolicy # Undefined
       /\ toLowerCase(task.result[j].accessPolicy) = toLowerCase(task.owner)

\* searchMemories hands over to searchMemoriesFallback (line 422 or line 444)
FallbackEntered == task'.op = "search" /\ task'.pc = "enumerating" /\ task.pc # "enumerating"

\* C31: searchMemories enters the exhaustive path (enumerate all keys, fetch
\* each one) only while the breaker is not set: once skipIndividualFetch is
\* set, no step of a searchMemories call hands over to searchMemoriesFallback.
C31_FallbackGuarded == [][FallbackEntered => ~skipIndividualFetch]_vars

\* loadChatMessages of caller c returned
LoadReturned(c) == chat[c].op = "load" /\ chat[c].pc = "done" /\ chat[c].status = "ok"

\* C32: no chat message is lost: the history loadChatMessages returns holds
\* the message of every addMessage call that had returned when the load
\* started, whether those calls ran one after the other or overlapped (the
\* remote answering every call of ChatService).
C32_NoMessageLost ==
  \A c \in Callers :
    (LoadReturned(c) /\ ~remoteFaults) => chat[c].seen \subseteq Range(chat[c].result)

\* C33: the key cache follows the master secret: every key getKey returns
\* for the key id of a record holds the material derived from the master
\* secret that is set now, so no key derived under an earlier secret is
\* returned after initializeWithPassword was called with another one.
C33_CacheFollowsMaster ==
  \A memoryId \in MemoryIds :
    LET key == getKey(memoryKeyId(memoryId))
    IN key # <<>> => key[1].privateKey = keyMaterial(masterKey, memoryId, key[1].salt)

\* the first n elements of s
Prefix(s, n) == [i \in 1..(IF n < Len(s) THEN n ELSE Len(s)) |-> s[i]]

\* a is obtained from b by leaving elements out
RECURSIVE IsSubsequence(_, _)
IsSubsequence(a, b) ==
  IF a = <<>> THEN TRUE
  ELSE IF b = <<>> THEN FALSE
  ELSE IF Head(a) = Head(b) THEN IsSubsequence(Tail(a), Tail(b))
  ELSE IsSubsequence(a, Tail(b))

\* the entities of the listing of the search that returned, decoded, in the
\* order of the listing
DecodedListing ==
  Flatten([i \in DOMAIN task.entities |->
             LET key == task.entities[i].key
             IN CASE task.shapes[i] \in {"inline", "value"} -> decodeEntity(key, remote[key])
                  [] task.shapes[i] = "text" -> decodeToText(key, remote[key])
                  [] OTHER -> <<>>])

Matches(memory) ==
  \/ task.searchText = <<>>
  \/ includes(toLowerCase(join(<<Str(memory.content), memory.category, memory.type>>
                                 \o memory.tags)),
              toLowerCase(task.searchText))

OwnedBy(memory) ==
  task.owner # Undefined => toLowerCase(memory.accessPolicy) = toLowerCase(task.owner)

PrimaryReturned == SearchDone /\ task.status = "ok" /\ task.path = "primary"

\* the keys in the order in which the path that answered fetched them
FetchedOrder ==
  IF task.path = "primary" THEN [i \in DOMAIN task.entities |-> task.entities[i].key]
  ELSE task.keys

\* on every path: at most limit records, in the order of the fetch
BoundedInOrder ==
  (SearchDone /\ task.status = "ok") =>
    /\ Len(task.result) <= task.limit
    /\ IsSubsequence([j \in DOMAIN task.result |-> task.result[j].ipfsHash], FetchedOrder)

\* C34 as stated: on the primary path the result of searchMemories(q, owner,
\* limit) is exactly the first limit decoded entities of the listing whose
\* haystack contains the query, whatever the owner argument; on every path
\* the result has at most limit records and follows the fetched order.
C34_Original ==
  /\ PrimaryReturned => task.result = Prefix(SelectSeq(DecodedListing, Matches), task.limit)
  /\ BoundedInOrder

\* C34 amended: on the primary path the result is exactly the first limit
\* decoded entities of the listing whose haystack contains the query and, when
\* an owner is given, whose accessPolicy.owner is that owner without regard to
\* case; on every path the result has at most limit records and follows the
\* fetched order.
C34_InOrderTruncated ==
  /\ PrimaryReturned =>
       task.result = Prefix(SelectSeq(DecodedListing, LAMBDA m : Matches(m) /\ OwnedBy(m)),
                            task.limit)
  /\ BoundedInOrder

\* more records match than the limit allows, and the first ones were returned
C34_Witness ==
  /\ PrimaryReturned
  /\ task.searchText # <<>>
  /\ Len(SelectSeq(DecodedListing, Matches)) > task.limit
  /\ Len(task.result) = task.limit
  /\ task.result[1].ipfsHash = 2

QueryReturned == query.pc = "done" /\ query.status = "ok"

\* what fetchOwnedEntities returned: with fetchAll every page, in page order,
\* one request per page; without it the first page after a single request
AllPagesInOrder ==
  QueryReturned =>
    IF query.fetchAll
    THEN /\ query.entities = Flatten(query.pages)
         /\ query.requests = Len(query.pages)
    ELSE /\ query.entities = query.pages[1]
         /\ query.requests = 1

\* C35: fetchOwnedEntities with fetchAll follows the pages until there is no
\* next page and returns the entities of all pages in page order; without
\* fetchAll it returns the first page and asks for no other; and a call
\* whose pages are finitely many comes to an end.
C35_AllPages ==
  /\ []AllPagesInOrder
  /\ (query.pc \in {"fetching", "paging"}) ~> (query.pc = "done")

\* a result of three pages was followed to its end
C35_Witness ==
  /\ QueryReturned
  /\ query.fetchAll
  /\ Len(query.pages) = 3
  /\ query.requests = 3
  /\ query.entities = <<1, 2, 1>>

\* decrypt is handed the envelope of the last encrypt and finds the key it was
\* made with, while the service is configured with another iteration count
ReadUnderOtherCount ==
  /\ call'.op = "decrypt"
  /\ envelope.key # <<>>
  /\ envelope.data.iterations # configIterations
  /\ decryptKey(call'.keyId, call'.withKms) = envelope.key

\* C36: the envelope is self-describing: decrypt derives the key with the
\* iteration count, salt and iv of the envelope, so an envelope written under
\* one iteration count decrypts to its plaintext under a service configured
\* with another.
C36_SelfDescribing ==
  [][ReadUnderOtherCount => (call'.status = "ok" /\ call'.content = envelope.content)]_vars

\* C37: the breaker bounds the consecutive failed recovery fetches at the
\* threshold: individualFetchFailures, the number of recovery getEntity calls
\* that failed in a row, never exceeds 5, also while the recovery fetches of
\* one batch of searchMemories are in flight together.
C37_FailuresBounded == individualFetchFailures <= FailureThreshold

\* saveChatMessages returned to caller 1, or threw
SaveReturned == chat[1].op = "save" /\ chat[1].pc = "done" /\ chat[1].status = "ok"
SaveThrew == chat[1].op = "save" /\ chat[1].pc = "done" /\ chat[1].status = "throw"

\* the load that followed a returned saveChatMessages returned, every remote
\* call of it having answered with the payload
LoadAfterSave == LoadReturned(1) /\ chat[1].saved # <<>> /\ ~chat[1].faulty

ConnectReturned == returned.op = "connect"
DisconnectReturned == returned.op = "disconnect"

\* C39: connectWallet returns true exactly when isWalletConnected() is true
\* afterwards, so that a connect that returned false leaves the service
\* reporting disconnected; after disconnectWallet() isWalletConnected() is
\* false and getAccountId() and getAccount() are null.
C39_ConnectionReported ==
  /\ ConnectReturned => (returned.result <=> isWalletConnected)
  /\ DisconnectReturned => (~isWalletConnected /\ getAccountId = <<>> /\ getAccount = <<>>)

RequestBusy == request.pc # "idle"
RefreshFailed == request.pc = "idle" /\ request.refresh = "failed"
Unauthenticated == accessToken = <<>> /\ refreshToken = <<>> /\ calendarTokens = <<>>

\* C40: makeRequest always terminates, also when the server keeps answering
\* 401 and the refresh keeps succeeding; when the refresh fails the tokens in
\* memory and the stored tokens are cleared, the client is unauthenticated and
\* makeRequest throws.
C40_RequestTerminates ==
  /\ RequestBusy ~> ~RequestBusy
  /\ [][(~RefreshFailed /\ RefreshFailed') =>
          (Unauthenticated' /\ ~isAuthenticated' /\ request'.status = "threw")]_vars

====
